---------------------------- MODULE Spec2Model ----------------------------
(***************************************************************************)
(* Model of the AntV MCP server's documentation query tool and its         *)
(* Context7 fetch client.                                                  *)
(*                                                                         *)
(* Three generations of the query tool are kept in the repository and are  *)
(* modelled side by side (variable impl):                                  *)
(*   "run"       QueryAntVDocumentTool.run + handleComplexTask             *)
(*               (src/tools/query_antv_document.ts:57-297)                 *)
(*   "docCheck"  QueryAntVDocumentTool.run + handleComplexTaskWithDocCheck *)
(*               (unnamed/part_013)                                        *)
(*   "assistant" AntVAssistantTool.execute, sequential sub-task loop       *)
(*               (src/tools/query_antv_document.ts:564-1021)               *)
(* and the two fetch clients:                                              *)
(*   "utils"     fetchLibraryDocumentation (src/utils/context7.ts)         *)
(*   "service"   Context7Service (src/services/context7.ts)                *)
(*                                                                         *)
(* Text that the code inspects character by character (HTTP bodies) is a   *)
(* sequence of one-character strings; text that the code only             *)
(* concatenates (messages, URLs) is a sequence of fragments.               *)
(***************************************************************************)
EXTENDS Integers, Sequences, FiniteSets, TLC

VARIABLES
  impl,    \* which tool, and which generation of it, is invoked
  args,    \* the argument object of the invocation
  pc,      \* "idle", "awaiting" (suspended on its fetches) or "done"
  branch,  \* the path the call took: "none", "simple" or "complex" for the
           \* query tool, "direct" or "callback" for the extraction tool
  reqs,    \* one record per fetch of the invocation, in sub-task order
  order,   \* indices of reqs in the order the fetches settled
  result   \* what the invocation returned (or the exception that escaped)

\* The sections on the server process, the DeepWiki client singleton and the
\* dependency cache of the package detector say how they use the variables.

vars == <<impl, args, pc, branch, reqs, order, result>>

---------------------------------------------------------------------------
(* JavaScript values *)

Null == [t |-> "null"]
Undefined == [t |-> "undefined"]
Str(s) == [t |-> "string", s |-> s]
Num(n) == [t |-> "number", n |-> n]
Arr(a) == [t |-> "array", a |-> a]
Obj(o) == [t |-> "object", o |-> o]

\* the number n + 0.5, and Number.isInteger
Frac(n) == [t |-> "number", n |-> n, frac |-> TRUE]
IsInteger(v) == v.t = "number" /\ "frac" \notin DOMAIN v

\* ToBoolean, as applied by `if (x)`, `x ? a : b`, `x && y`, `!x`
Truthy(v) ==
  CASE v.t = "null" -> FALSE
    [] v.t = "undefined" -> FALSE
    [] v.t = "string" -> v.s # <<>>
    [] v.t = "number" -> v.n # 0
    [] OTHER -> TRUE

\* a completion of a piece of code: a value, or a thrown error
Value(v) == [c |-> "return", v |-> v]
Throw(name, message) == [c |-> "throw", name |-> name, message |-> message]

---------------------------------------------------------------------------
(* Text *)

WhiteSpace == {" ", "\t", "\n"}

RECURSIVE TrimStart(_)
TrimStart(s) ==
  IF s # <<>> /\ Head(s) \in WhiteSpace THEN TrimStart(Tail(s)) ELSE s

RECURSIVE TrimEnd(_)
TrimEnd(s) ==
  IF s # <<>> /\ s[Len(s)] \in WhiteSpace
  THEN TrimEnd(SubSeq(s, 1, Len(s) - 1))
  ELSE s

\* String.prototype.trim
trim(s) == TrimEnd(TrimStart(s))

DigitChar(d) ==
  CASE d = 0 -> "0" [] d = 1 -> "1" [] d = 2 -> "2" [] d = 3 -> "3"
    [] d = 4 -> "4" [] d = 5 -> "5" [] d = 6 -> "6" [] d = 7 -> "7"
    [] d = 8 -> "8" [] d = 9 -> "9"

\* Number.prototype.toString / template interpolation of a non-negative integer
RECURSIVE ToDecimal(_)
ToDecimal(n) ==
  IF n < 10 THEN <<DigitChar(n)>>
  ELSE ToDecimal(n \div 10) \o <<DigitChar(n % 10)>>

\* the two "no content" bodies of the documentation API
NO_CONTENT ==
  <<"N","o"," ","c","o","n","t","e","n","t"," ",
    "a","v","a","i","l","a","b","l","e">>

NO_CONTEXT_DATA ==
  <<"N","o"," ","c","o","n","t","e","x","t"," ","d","a","t","a"," ",
    "a","v","a","i","l","a","b","l","e">>

---------------------------------------------------------------------------
(* Fetch client *)

CONTEXT7_TIMEOUT == 30000

Clients == {"utils", "service"}

\* response.ok
ok(resp) == resp.status >= 200 /\ resp.status =< 299

\* `HTTP ${response.status}: ${response.statusText}`
HttpErrorMessage(resp) ==
  <<"HTTP ">> \o ToDecimal(resp.status) \o <<": ", resp.statusText>>

TIMEOUT_MESSAGE == <<"Timeout error">>

\* What the aborted fetch rejects with.  AbortSignal.timeout(ms) aborts with a
\* DOMException named TimeoutError; AbortController.abort() with one named
\* AbortError.
AbortReason(client) ==
  IF client = "utils"
  THEN Throw("TimeoutError", <<"The operation was aborted due to timeout">>)
  ELSE Throw("AbortError", <<"This operation was aborted">>)

\* (mutant) the body compared with the sentinels after trimming
NormalizeBodyTrimmed(text) ==
  IF trim(text) \in {<<>>, NO_CONTENT, NO_CONTEXT_DATA}
  THEN Null
  ELSE Str(text)

\* the body test of fetchContext7Library / makeContext7Request
NormalizeBody(text) ==
  IF \/ text = <<>>
     \/ text = NO_CONTENT
     \/ text = NO_CONTEXT_DATA
     \/ Len(trim(text)) = 0
  THEN Null
  ELSE Str(text)

\* the catch block of fetchContext7Library / makeContext7Request
RethrowNormalized(e) ==
  IF e.name = "AbortError" THEN Throw("Error", TIMEOUT_MESSAGE) ELSE e

\* The completion of fetchContext7Library / makeContext7Request for one network
\* event ev:
\*   [k |-> "headers", resp |-> r]   response headers with a non-ok status
\*   [k |-> "body", text |-> s]      body of an ok response read to its end
\*   [k |-> "netfail", message |-> m] fetch() or text() rejected by the transport
\*   [k |-> "abort"]                 the timeout signal aborted the request
fetchContext7Library(client, ev) ==
  CASE ev.k = "headers" ->
         RethrowNormalized(Throw("Error", HttpErrorMessage(ev.resp)))
    [] ev.k = "body" -> Value(NormalizeBody(ev.text))
    [] ev.k = "netfail" -> RethrowNormalized(Throw("TypeError", ev.message))
    [] ev.k = "abort" -> RethrowNormalized(AbortReason(client))

\* (mutant) the outcome object without the error message
UtilsOutcomeWithoutError(done) ==
  IF done.c = "return" /\ Truthy(done.v)
  THEN [documentation |-> done.v]
  ELSE [documentation |-> Null]

\* fetchLibraryDocumentation of src/utils/context7.ts: the outcome object
UtilsOutcome(done) ==
  IF done.c = "return"
  THEN IF Truthy(done.v)
       THEN [documentation |-> done.v]
       ELSE [documentation |-> Null]
  ELSE [documentation |-> Null, error |-> Str(done.message)]

\* Context7Service.fetchLibraryDocumentation: text or null, errors swallowed;
\* the caller stores it as {task, documentation}
ServiceOutcome(done) ==
  IF done.c = "return"
  THEN IF Truthy(done.v)
       THEN [documentation |-> done.v]
       ELSE [documentation |-> Null]
  ELSE [documentation |-> Null]

fetchLibraryDocumentation(client, ev) ==
  IF client = "utils"
  THEN UtilsOutcome(fetchContext7Library(client, ev))
  ELSE ServiceOutcome(fetchContext7Library(client, ev))

\* (mutant) every library sent to the id of g2
getLibraryIdOfG2(library) == <<"/", "antvis", "/", "g2">>

\* getLibraryId: `/antvis/${library}`
getLibraryId(library) == <<"/", "antvis", "/", library>>

\* getContext7Url: the path and the query parameters that are set
getContext7Url(libraryId, topic, tokens) ==
  LET libId == IF Head(libraryId) = "/" THEN Tail(libraryId) ELSE libraryId
      base == [path |-> <<"/v1/">> \o libId, type |-> "txt"]
      withTokens == IF Truthy(tokens)
                    THEN [x \in {"tokens"} |-> tokens.n]
                    ELSE <<>>
      withTopic == IF Truthy(topic)
                   THEN [x \in {"topic"} |-> topic]
                   ELSE <<>>
  IN  base @@ withTokens @@ withTopic

---------------------------------------------------------------------------
(* Library registries *)

\* ANTV_LIBRARY_META: each key with the id and name of its descriptor
ANTV_LIBRARY_META ==
  [g2 |-> [id |-> "g2", name |-> "G2"], g6 |-> [id |-> "g6", name |-> "G6"],
   l7 |-> [id |-> "l7", name |-> "L7"], x6 |-> [id |-> "x6", name |-> "X6"],
   f2 |-> [id |-> "f2", name |-> "F2"], s2 |-> [id |-> "s2", name |-> "S2"],
   g |-> [id |-> "g", name |-> "G"], ava |-> [id |-> "ava", name |-> "AVA"],
   adc |-> [id |-> "adc", name |-> "ADC"]]

\* LIBRARY_MAPPING: each key with the id and name of its descriptor
LIBRARY_MAPPING ==
  [g2 |-> [id |-> "g2", name |-> "G2"], s2 |-> [id |-> "s2", name |-> "S2"],
   f2 |-> [id |-> "f2", name |-> "F2"], g6 |-> [id |-> "g6", name |-> "G6"],
   x6 |-> [id |-> "x6", name |-> "X6"], l7 |-> [id |-> "l7", name |-> "L7"]]

\* property names every object literal inherits from Object.prototype
ObjectPrototypeKeys == {"constructor", "toString", "valueOf", "hasOwnProperty"}

\* getLibraryConfig: a plain property read (config/index.ts reads
\* LIBRARY_MAPPING, constant.ts reads ANTV_LIBRARY_META): the descriptor, the
\* inherited function for an inherited name, undefined for any other key
getLibraryConfig(i, library) ==
  LET table == IF i \in {"assistant", "topicIntentExtractor"}
               THEN LIBRARY_MAPPING ELSE ANTV_LIBRARY_META
  IN  IF library \in DOMAIN table
      THEN Obj(table[library])
      ELSE IF library \in ObjectPrototypeKeys
      THEN Obj([name |-> IF library = "constructor" THEN "Object" ELSE library])
      ELSE Undefined

CONTEXT7_TOKENS_default == 5000
CONTEXT7_TOKENS_min == 1000
CONTEXT7_TOKENS_max == 20000

---------------------------------------------------------------------------
(* Inputs *)

MaxSubTasks == 3

Impls == {"run", "docCheck", "assistant"}

ClientOf(i) == IF i = "assistant" THEN "service" ELSE "utils"

\* the i-th sub-task of a caller-supplied list
Task(i) ==
  Obj([query |-> Str(<<"q">> \o ToDecimal(i)),
       topic |-> Str(<<"t">> \o ToDecimal(i))])

\* a JS string together with its length property
Query(frags, length) == [t |-> "string", s |-> frags, length |-> length]

QuerySamples ==
  { Query(<<"bar chart">>, 9),
    Query(<<"ruhe", "chuangjian", "peizhi", "tubiao">>, 8) }

TopicSamples ==
  { Str(<<"bar">>),
    Str(<<"bar", ",", " ", "axis", ",", "legend">>),
    Str(<<"a", ",", "b", ",", "c", ",", "d", ",", "e">>) }

\* total token budgets tried with a sub-task list, and those tried without
SubTaskTokenSamples == {CONTEXT7_TOKENS_min, 6000}

TokenSamples == {CONTEXT7_TOKENS_min, CONTEXT7_TOKENS_default, 6000,
                 CONTEXT7_TOKENS_max}

IntentSamples == {"implement", "explain"}

SubTaskSamples ==
  { Arr([i \in 1..n |-> Task(i)]) : n \in 1..MaxSubTasks }

\* argument objects that pass the input schema: sub-task lists of every
\* length, and every query, topic, intent and budget without sub-tasks
ValidArgs ==
  { [library |-> "g2", query |-> Query(<<"bar chart">>, 9),
     topic |-> Str(<<"bar">>), intent |-> "implement",
     tokens |-> Num(tk), subTasks |-> st] :
      tk \in SubTaskTokenSamples, st \in SubTaskSamples }
  \cup
  { [library |-> "g2", query |-> Query(<<"bar chart">>, 9),
     topic |-> Str(<<"bar">>), intent |-> "implement",
     tokens |-> Num(tk), subTasks |-> st] :
      tk \in TokenSamples, st \in {Undefined, Arr(<<>>)} }
  \cup
  { [library |-> "g2", query |-> q, topic |-> tp, intent |-> it,
     tokens |-> Num(CONTEXT7_TOKENS_default), subTasks |-> Undefined] :
      q \in QuerySamples, tp \in TopicSamples, it \in IntentSamples }
  \cup
  { [library |-> lib, query |-> Query(<<"bar chart">>, 9),
     topic |-> Str(<<"bar">>), intent |-> "implement",
     tokens |-> Num(CONTEXT7_TOKENS_default), subTasks |-> Undefined] :
      lib \in DOMAIN LIBRARY_MAPPING }

\* argument objects handed to the handler without validation
RawArgs ==
  { [library |-> lib, query |-> Query(<<"bar chart">>, 9), topic |-> tp,
     intent |-> "implement", tokens |-> Num(CONTEXT7_TOKENS_default),
     subTasks |-> st] :
      lib \in {"g2", "unknown"},
      tp \in {Str(<<"bar">>), Undefined, Num(123)},
      st \in {Undefined, Arr(<<Task(1), Task(2)>>), Arr(<<Task(1), Null>>),
              Str(<<"a", "b">>)} }

\* argument objects of a tools/call request: a valid one, and that one with
\* one field made invalid
CallArgs ==
  LET base == [library |-> "g2", query |-> Query(<<"bar chart">>, 9),
               topic |-> Str(<<"bar">>), intent |-> "implement",
               tokens |-> Num(CONTEXT7_TOKENS_default), subTasks |-> Undefined]
  IN  {base}
      \cup { [base EXCEPT !.library = lib] : lib \in {"unknown", "", "ava"} }
      \cup { [base EXCEPT !.query = Query(<<>>, 0)],
             [base EXCEPT !.topic = Str(<<>>)],
             [base EXCEPT !.intent = ""] }
      \cup { [base EXCEPT !.tokens = tk] :
               tk \in {Num(500), Num(50000), Frac(1500), Num(CONTEXT7_TOKENS_min),
                       Num(CONTEXT7_TOKENS_max)} }
      \cup { [base EXCEPT !.subTasks = Arr(<<Task(1), Task(2)>>), !.tokens = tk] :
               tk \in {Num(500), Num(CONTEXT7_TOKENS_default)} }

\* the longest sub-task list of a batch call
MaxBatch == 5

\* argument objects with a sub-task list of every length up to MaxBatch; the
\* schema puts no limit on the length of the array
BatchArgs ==
  { [library |-> "g2", query |-> Query(<<"bar chart">>, 9),
     topic |-> Str(<<"bar">>), intent |-> "implement",
     tokens |-> Num(CONTEXT7_TOKENS_default),
     subTasks |-> Arr([i \in 1..n |-> Task(i)])] : n \in 1..MaxBatch }

\* the longest installed list tried
MaxInstalled == 3

\* queries handed to recommendLibrary, as sequences of characters
RecommendQueries ==
  { <<"u", "s", "e", " ", "G", "6", " ", "m", "a", "p">>,
    <<"m", "a", "p">>,
    <<"h", "e", "l", "l", "o">>,
    <<"x", "6", " ", "a", "n", "d", " ", "g", "2">>,
    <<"p", "i", "v", "o", "t", " ", "t", "a", "b", "l", "e">>,
    <<"f", "l", "o", "w", "c", "h", "a", "r", "t">>,
    <<"@", "a", "n", "t", "v", "/", "l", "7">>,
    <<>>,
    <<"M", "A", "P", " ", "a", "p", "p">> }

\* installed lists: the AntV libraries in any order, without repetition
InstalledLists ==
  { list \in UNION { [1..n -> DOMAIN LIBRARY_MAPPING] : n \in 0..MaxInstalled } :
      \A j, k \in 1..Len(list) : list[j] = list[k] => j = k }

\* the generations of the extraction tool:
\*   "topicIntentExtractor"     TopicIntentExtractorTool.run
\*                              (src/tools/topic-intent-extractor.ts)
\*   "extractAntVTopic"         ExtractAntVTopicTool.run
\*                              (src/tools/query_antv_document.ts:299-547)
\*   "topicIntentExtractor010"  TopicIntentExtractorTool.run (unnamed/part_010)
ExtractTools ==
  {"topicIntentExtractor", "extractAntVTopic", "topicIntentExtractor010"}

\* argument objects handed to the extraction tool
ExtractArgs ==
  [query : {Str(<<>>), Str(<<" ">>), Str(<<"\n", "\t">>), Str(<<"b", "a", "r">>),
            Str(<<" ", "b", " ">>), Undefined, Num(5)},
   library : {Undefined, Str(<<>>), Str(<<"g2">>), Str(<<"g6">>),
              Str(<<"l7">>), Str(<<"x6">>), Str(<<"f2">>), Str(<<"s2">>),
              Str(<<"unknown">>), Str(<<"toString">>),
              Str(<<"constructor">>)},
   maxTopics : {Undefined, Num(5), Num(3), Num(8), Num(2), Num(99), Num(0),
                Frac(4), Str(<<"5">>)}]

BodySamples ==
  { <<>>, <<"\n", " ">>, <<" ", "d", "\n">>,
    NO_CONTENT, NO_CONTEXT_DATA, <<" ">> \o NO_CONTENT }

ResponseSamples ==
  { [status |-> 200, statusText |-> "OK"],
    [status |-> 404, statusText |-> "Not Found"],
    [status |-> 500, statusText |-> "Internal Server Error"] }

---------------------------------------------------------------------------
(* Helpers of the tool bodies *)

Min(a, b) == IF a < b THEN a ELSE b

\* String.prototype.split(',') on a fragment sequence
RECURSIVE split(_)
split(s) ==
  LET commas == {i \in 1..Len(s) : s[i] = ","}
  IN  IF commas = {} THEN <<s>>
      ELSE LET i == CHOOSE j \in commas : \A m \in commas : j =< m
           IN  <<SubSeq(s, 1, i - 1)>> \o split(SubSeq(s, i + 1, Len(s)))

\* topic.split(',').map((t) => t.trim())
SplitTrim(s) == [i \in 1..Len(split(s)) |-> trim(split(s)[i])]

\* x.length, undefined where the value has none
Length(v) ==
  CASE v.t = "array" -> Len(v.a)
    [] v.t = "string" -> Len(v.s)
    [] OTHER -> 0

\* A fetch of the invocation: st is "new" (not issued), "sent" (awaiting the
\* response headers), "headers" (awaiting the body) or "settled"; armed says
\* the timeout is pending, expired that CONTEXT7_TIMEOUT ms have passed since
\* the request was issued, ev is the network event that settled it and out
\* the outcome fetchLibraryDocumentation returned.
NotStarted(task) ==
  [st |-> "new", task |-> task, url |-> Undefined, armed |-> FALSE,
   expired |-> FALSE, ev |-> Undefined, out |-> Undefined]

\* fetch(url, {signal}) issued: the timeout is armed with it
Issued(task, url) ==
  [st |-> "sent", task |-> task, url |-> url, armed |-> TRUE,
   expired |-> FALSE, ev |-> Undefined, out |-> Undefined]

SettledWith(r, out) == [r EXCEPT !.st = "settled", !.armed = FALSE, !.out = out]

IsPending(r) == r.st \in {"sent", "headers"}

\* the per-sub-task ceiling: 1000, and 2000 in AntVAssistantTool
TokenCap(i) == IF i = "assistant" THEN 2000 ELSE 1000

\* (mutant) the share of the budget without the ceiling
tokenPerSubTaskUncapped(i, a, n) == a.tokens.n \div n

\* Math.min(Math.floor(tokens / subTasks.length), cap)
tokenPerSubTask(i, a, n) ==
  LET total == IF i = "assistant" /\ ~Truthy(a.tokens)
               THEN CONTEXT7_TOKENS_default
               ELSE a.tokens.n
  IN  Min(total \div n, TokenCap(i))

\* The body of one sub-task callback up to its first await: reading
\* subTask.topic throws on a null entry and the callback's own catch turns
\* that into a result; otherwise the request is issued.
StartSubTask(i, a, task, n) ==
  IF task.t # "object"
  THEN SettledWith(NotStarted(task),
         IF i = "assistant"
         THEN [documentation |-> Null]
         ELSE [documentation |-> Null,
               error |-> Str(<<"Cannot read properties of null (reading 'topic')">>)])
  ELSE Issued(task, getContext7Url(getLibraryId(a.library), task.o.topic,
                                   Num(tokenPerSubTask(i, a, n))))

\* (mutant) every sub-task fetched a second time
DispatchAllAndRetry(i, a, tasks) ==
  [j \in 1..(2 * Len(tasks)) |->
     StartSubTask(i, a, tasks[((j - 1) % Len(tasks)) + 1], Len(tasks))]

\* subTasks.map(async (subTask) => ...): every callback runs to its first
\* await inside the map call, so all requests are issued before Promise.all
DispatchAll(i, a, tasks) ==
  [j \in 1..Len(tasks) |-> StartSubTask(i, a, tasks[j], Len(tasks))]

\* for (const subTask of subTasks) { await fetch... }: entries are started
\* one at a time, from position j on, until one of them is left in flight
RECURSIVE StartFrom(_, _, _, _)
StartFrom(i, a, rs, j) ==
  IF j > Len(rs) THEN rs
  ELSE LET started == StartSubTask(i, a, rs[j].task, Len(rs))
           next == [rs EXCEPT ![j] = started]
       IN  IF started.st = "settled" THEN StartFrom(i, a, next, j + 1)
           ELSE next

DispatchSequential(i, a, tasks) ==
  StartFrom(i, a, [j \in 1..Len(tasks) |-> NotStarted(tasks[j])], 1)

\* await Promise.all(promises): resumes when every promise has settled
AllSettled(rs) == \A j \in 1..Len(rs) : rs[j].st = "settled"

\* (mutant) results collected in the order of settlement
PromiseAllByCompletion(rs, ord) ==
  IF Len(ord) = Len(rs)
  THEN [j \in 1..Len(rs) |-> [task |-> rs[ord[j]].task] @@ rs[ord[j]].out]
  ELSE [j \in 1..Len(rs) |-> [task |-> rs[j].task] @@ rs[j].out]

\* Promise.all resolves to the results by position, whatever the order of
\* settlement ord
PromiseAll(rs, ord) ==
  [j \in 1..Len(rs) |-> [task |-> rs[j].task] @@ rs[j].out]

\* (mutant) results.every in place of results.some
hasDocumentationEvery(results) ==
  \A j \in 1..Len(results) :
    results[j].documentation # Null /\ trim(results[j].documentation.s) # <<>>

\* results.some((r) => r.documentation !== null && r.documentation.trim() !== '')
HasDoc(r) ==
  r.documentation # Null /\ trim(r.documentation.s) # <<>>

hasDocumentation(results) == \E j \in 1..Len(results) : HasDoc(results[j])

\* results.filter((r) => r.documentation).length
successCount(results) ==
  Cardinality({j \in 1..Len(results) : Truthy(results[j].documentation)})

ErrorOf(r) == IF "error" \in DOMAIN r THEN r.error ELSE Undefined

---------------------------------------------------------------------------
(* Rendering.  A response is the sequence of the blocks the code appends. *)

\* (mutant) handleComplexTask's summary with the partial tier above one half
IntegrationSummaryByHalf(results) ==
  LET s == successCount(results)
  IN  [k |-> "summary", found |-> s, total |-> Len(results),
       tier |-> IF s = Len(results) THEN "complete"
                ELSE IF 2 * s > Len(results) THEN "partial"
                ELSE "limited"]

\* the aggregate summary of handleComplexTask
IntegrationSummary(results) ==
  LET s == successCount(results)
  IN  [k |-> "summary", found |-> s, total |-> Len(results),
       tier |-> IF s = Len(results) THEN "complete"
                ELSE IF s > 0 THEN "partial"
                ELSE "limited"]

\* generateComplexTaskSummary
generateComplexTaskSummary(results) ==
  LET s == successCount(results)
      totalCount == Len(results)
  IN  [k |-> "summary", found |-> s, total |-> totalCount,
       tier |-> IF s = totalCount THEN "complete"
                ELSE IF 2 * s > totalCount THEN "partial"
                ELSE "insufficient"]

\* generateImplementationGuidance / generateIntentSpecificGuidance
generateImplementationGuidance(intent) ==
  [k |-> "guidance",
   section |-> CASE intent = "learn" -> "learn"
                 [] intent = "implement" -> "implement"
                 [] intent = "solve" -> "solve"
                 [] OTHER -> "default"]

generateFollowUpNotice == [k |-> "followUp"]

\* (mutant) the sub-section without the error line
SubTaskSectionWithoutError(i, j, r) ==
  [k |-> "subtask", index |-> j,
   query |-> r.task.o.query,
   topic |-> r.task.o.topic,
   documentation |-> IF Truthy(r.documentation) THEN r.documentation
                     ELSE Undefined,
   warning |-> ~Truthy(r.documentation),
   error |-> Undefined]

\* one sub-section of the complex response, for the result at position j
SubTaskSection(i, j, r) ==
  [k |-> "subtask", index |-> j,
   query |-> IF i = "assistant" THEN Undefined ELSE r.task.o.query,
   topic |-> r.task.o.topic,
   documentation |-> IF Truthy(r.documentation) THEN r.documentation
                     ELSE Undefined,
   warning |-> ~Truthy(r.documentation),
   error |-> IF ~Truthy(r.documentation) /\ i # "assistant"
                /\ Truthy(ErrorOf(r))
             THEN ErrorOf(r) ELSE Undefined]

\* The part of the complex handler that runs after the join: the completion
\* of handleComplexTask / handleComplexTaskWithDocCheck.
RenderComplex(i, a, results) ==
  IF \E j \in 1..Len(results) : results[j].task.t # "object"
  THEN Throw("TypeError", <<"Cannot read properties of null (reading 'query')">>)
  ELSE Value(
    [hasDocumentation |-> hasDocumentation(results),
     response |->
       << [k |-> "title", library |-> getLibraryConfig(i, a.library).o.name],
          [k |-> "question", query |-> a.query],
          [k |-> "complexity", subTasks |-> Len(results)] >>
       \o [j \in 1..Len(results) |-> SubTaskSection(i, j, results[j])]
       \o << IF i = "run" THEN IntegrationSummary(results)
             ELSE generateComplexTaskSummary(results),
             generateImplementationGuidance(a.intent) >>
       \o (IF i = "assistant" THEN <<>> ELSE <<generateFollowUpNotice>>)])

\* generateSimpleResponse (run), generateResponse (docCheck, assistant)
generateSimpleResponse(i, a, r) ==
  IF getLibraryConfig(i, a.library) = Undefined
  THEN Throw("TypeError", <<"Cannot read properties of undefined (reading 'name')">>)
  ELSE LET head == << [k |-> "title",
                       library |-> getLibraryConfig(i, a.library).o.name],
                      [k |-> "question", query |-> a.query] >>
           topic == << [k |-> "topic", topic |-> a.topic] >>
           found == << [k |-> "documentation", text |-> r.documentation],
                       generateImplementationGuidance(a.intent) >>
           errorLine == [k |-> "error", message |-> ErrorOf(r)]
       IN  Value(
             CASE i = "run" ->
                    IF Truthy(r.documentation)
                    THEN head \o topic \o found \o <<generateFollowUpNotice>>
                    ELSE head \o << [k |-> "noDocumentation"] >>
                         \o (IF Truthy(ErrorOf(r)) THEN <<errorLine>> ELSE <<>>)
                         \o << [k |-> "suggestions"], generateFollowUpNotice >>
               [] i = "docCheck" ->
                    IF Truthy(r.documentation)
                    THEN head \o topic \o found \o <<generateFollowUpNotice>>
                    ELSE head \o topic
                         \o << [k |-> "retrievalFailed"], errorLine,
                               [k |-> "suggestions"], generateFollowUpNotice >>
               [] OTHER ->
                    IF Truthy(r.documentation)
                    THEN head \o topic \o found
                    ELSE head \o topic
                         \o << [k |-> "retrievalFailed"],
                               [k |-> "suggestions"] >>)

---------------------------------------------------------------------------
(* The tool handlers *)

\* the catch block of run / execute; reading args.topic.split on a truthy
\* non-string topic throws out of the handler
Catch(a, e) ==
  IF Truthy(a.topic) /\ a.topic.t # "string"
  THEN [escaped |-> TRUE, name |-> "TypeError",
        message |-> <<"args.topic.split is not a function">>]
  ELSE [escaped |-> FALSE, isError |-> TRUE,
        text |-> <<"Processing failed: ">> \o e.message,
        meta |-> [topic |-> IF Truthy(a.topic) THEN SplitTrim(a.topic.s)
                            ELSE <<>>,
                  intent |-> a.intent, library |-> a.library,
                  hasDocumentation |-> FALSE, error |-> e.message]]

\* the return statement that closes the try block
Return(a, response, hasDoc) ==
  IF a.topic.t # "string"
  THEN Throw("TypeError", <<"Cannot read properties of undefined (reading 'split')">>)
  ELSE Value([escaped |-> FALSE, isError |-> FALSE, text |-> response,
              meta |-> [topic |-> SplitTrim(a.topic.s), intent |-> a.intent,
                        library |-> a.library, hasDocumentation |-> hasDoc]])

\* `library in LIBRARY_MAPPING`: own keys and what every object inherits
isValidLibrary(library) ==
  library \in (DOMAIN LIBRARY_MAPPING) \cup ObjectPrototypeKeys

\* AntVAssistantTool.validateArgs: the message it throws, or <<>>
validateArgs(a) ==
  IF a.library = "" \/ a.query.t # "string" \/ trim(a.query.s) = <<>>
  THEN <<"missing required arguments: library and query">>
  ELSE IF ~isValidLibrary(a.library)
  THEN <<"unsupported library: ", a.library>>
  ELSE IF Truthy(a.topic) /\ a.intent = ""
  THEN <<"topic and intent must be given together">>
  ELSE <<>>

\* the issues zod reports for the fields that fail, each as path, ": " and
\* message, joined by ", "
Issue(cond, path, message) == IF cond THEN << <<path, ": ", message>> >> ELSE <<>>

RECURSIVE JoinIssues(_)
JoinIssues(issues) ==
  IF issues = <<>> THEN <<>>
  ELSE IF Len(issues) = 1 THEN issues[1]
  ELSE issues[1] \o <<", ">> \o JoinIssues(Tail(issues))

\* QueryAntVDocumentInputSchema.parse(args)
QueryAntVDocumentInputSchema(a) ==
  LET text(v) == v.t = "string" /\ v.s # <<>>
  IN  Issue(a.library \notin DOMAIN ANTV_LIBRARY_META, "library",
            "Invalid enum value")
      \o Issue(~text(a.query), "query", "String must contain at least 1 character(s)")
      \o Issue(~text(a.topic), "topic", "String must contain at least 1 character(s)")
      \o Issue(a.intent = "", "intent", "String must contain at least 1 character(s)")
      \o Issue(a.tokens.t = "number" /\ ~IsInteger(a.tokens), "tokens",
               "Expected integer, received float")
      \o Issue(a.tokens.t = "number" /\ a.tokens.n < CONTEXT7_TOKENS_min, "tokens",
               "Number must be greater than or equal to 1000")
      \o Issue(a.tokens.t = "number" /\ a.tokens.n > CONTEXT7_TOKENS_max, "tokens",
               "Number must be less than or equal to 20000")
      \o Issue(a.tokens.t \notin {"number", "undefined"}, "tokens", "Expected number")
      \o Issue(a.subTasks.t \notin {"array", "undefined"}, "subTasks",
               "Expected array")

\* validateSchema(schema, args), given the issues schema.parse(args) reports
validateSchema(issues) ==
  IF issues = <<>>
  THEN [success |-> TRUE, errorMessage |-> <<>>]
  ELSE [success |-> FALSE,
        errorMessage |-> <<"Schema validation failed: ">> \o JoinIssues(issues)]

\* formatErrorResult of the server's handleToolCall
formatErrorResult(e) ==
  [escaped |-> FALSE, isError |-> TRUE,
   text |-> <<"Tool execution failed: ">> \o e.message,
   meta |-> [hasDocumentation |-> FALSE, error |-> e.message]]

actionWords == {"chuangjian", "tianjia", "shezhi", "peizhi", "shixian",
                "ruhe", "zenme"}

\* AntVAssistantTool.isComplexTask
isComplexTask(query, topic) ==
  LET topicCount == Len(split(topic.s))
      queryLength == query.length
      actionCount ==
        Cardinality({w \in actionWords : \E j \in 1..Len(query.s) : query.s[j] = w})
  IN  topicCount > 3 \/ queryLength > 50 \/ actionCount > 2

\* AntVAssistantTool.extractSubTasks: one sub-task per pair of topics, from
\* at most the first four
extractSubTasks(query, topic, intent) ==
  LET topics == SplitTrim(topic.s)
      n == (Min(Len(topics), 4) + 1) \div 2
      pair(j) == IF 2 * j =< Len(topics)
                 THEN topics[2 * j - 1] \o <<", ">> \o topics[2 * j]
                 ELSE topics[2 * j - 1]
  IN  [j \in 1..n |->
         Obj([query |-> Str(<<"about ">> \o pair(j)), topic |-> Str(pair(j)),
              intent |-> intent])]

\* The handler from its entry to its first suspension: a thrown error, or
\* the branch taken and the fetches it has issued.
Begin(i, a) ==
  LET message == validateArgs(a)
      complex(tasks) ==
        IF getLibraryConfig(i, a.library) = Undefined
        THEN Throw("TypeError", <<"Cannot read properties of undefined (reading 'name')">>)
        ELSE IF tasks.t # "array"
        THEN Throw("TypeError", <<"subTasks is not iterable as an array">>)
        ELSE Value([branch |-> "complex",
                    reqs |-> IF i = "assistant"
                             THEN DispatchSequential(i, a, tasks.a)
                             ELSE DispatchAll(i, a, tasks.a)])
      simple(tokens) ==
        Value([branch |-> "simple",
               reqs |-> << Issued(Undefined,
                             getContext7Url(getLibraryId(a.library), a.topic,
                                            tokens)) >>])
  IN  IF i = "assistant" /\ message # <<>> THEN Throw("Error", message)
      ELSE IF Truthy(a.subTasks) /\ Length(a.subTasks) > 0
      THEN complex(a.subTasks)
      ELSE IF i # "assistant" THEN simple(a.tokens)
      ELSE IF a.topic.t # "string"
      THEN Throw("TypeError", <<"Cannot read properties of undefined (reading 'split')">>)
      ELSE IF isComplexTask(a.query, a.topic)
      THEN complex(Arr(extractSubTasks(a.query, a.topic, a.intent)))
      ELSE simple(IF Truthy(a.tokens) THEN a.tokens
                  ELSE Num(CONTEXT7_TOKENS_default))

\* The handler from the join of its fetches to its return.
Finish(i, a, br, rs, ord) ==
  LET results == PromiseAll(rs, ord)
      body ==
        IF br = "complex"
        THEN LET done == RenderComplex(i, a, results)
             IN  IF done.c = "throw" THEN done
                 ELSE Return(a, done.v.response, done.v.hasDocumentation)
        ELSE LET done == generateSimpleResponse(i, a, results[1])
             IN  IF done.c = "throw" THEN done
                 ELSE Return(a, done.v, HasDoc(results[1]))
  IN  IF body.c = "throw" THEN Catch(a, body) ELSE body.v

---------------------------------------------------------------------------
(* The extraction tool *)

\* the property key a library value names
LibKey(v) == IF v.t = "string" /\ v.s # <<>> THEN v.s[1] ELSE ""

\* v || d
Or(v, d) == IF Truthy(v) THEN v ELSE d

\* ExtractAntVTopicInputSchema.parse(args)
ExtractAntVTopicInputSchema(a) ==
  Issue(a.query.t # "string", "query", "Required")
  \o Issue(a.query.t = "string" /\ a.query.s = <<>>, "query",
           "Query content cannot be empty")
  \o Issue(a.query.t = "string" /\ trim(a.query.s) = <<>>, "query",
           "Query content cannot be empty after trimming")
  \o Issue(a.library # Undefined /\ LibKey(a.library) \notin DOMAIN ANTV_LIBRARY_META,
           "library", "Unsupported library. Must be one of: ...")
  \o Issue(a.maxTopics.t \notin {"number", "undefined"}, "maxTopics",
           "Expected number")
  \o Issue(a.maxTopics.t = "number" /\ ~IsInteger(a.maxTopics), "maxTopics",
           "MaxTopics must be an integer")
  \o Issue(a.maxTopics.t = "number" /\ a.maxTopics.n < 3, "maxTopics",
           "MaxTopics must be at least 3")
  \o Issue(a.maxTopics.t = "number"
             /\ (a.maxTopics.n > 8 \/ (a.maxTopics.n = 8 /\ ~IsInteger(a.maxTopics))),
           "maxTopics", "MaxTopics cannot exceed 8")

\* validateArgs of topic-intent-extractor.ts
ExtractorValidateArgs(a) ==
  IF a.query.t \in {"undefined", "null"}
  THEN Throw("Error", <<"Query content cannot be empty">>)
  ELSE IF a.query.t # "string"
  THEN Throw("TypeError", <<"args.query?.trim is not a function">>)
  ELSE IF trim(a.query.s) = <<>>
  THEN Throw("Error", <<"Query content cannot be empty">>)
  ELSE IF Truthy(a.library) /\ ~isValidLibrary(LibKey(a.library))
  THEN Throw("Error", <<"Unsupported library: ", LibKey(a.library)>>)
  ELSE Value(Undefined)

\* generateLibrarySpecifiedSection
generateLibrarySpecifiedSection(i, libraryContext) ==
  [k |-> "section",
   heading |-> IF i = "topicIntentExtractor" THEN <<"Library Context">>
               ELSE <<"Phase 1: Library Context">>,
   library |-> libraryContext.o.name]

\* (mutant) the detection section under another heading
generateLibraryDetectionSectionRenamed ==
  [k |-> "section", heading |-> <<"Library Recommendation">>]

\* generateLibraryDetectionSection
generateLibraryDetectionSection ==
  [k |-> "section",
   heading |-> <<"Phase 1: Library Detection", " and Recommendation">>]

\* generateUnifiedPrompt: the prompt as the sequence of its sections
generateUnifiedPrompt(i, query, maxTopics, libraryContext) ==
  LET isLibrarySpecified == Truthy(libraryContext)
  IN  << [k |-> "title", specified |-> isLibrarySpecified],
         [k |-> "objective", specified |-> isLibrarySpecified],
         [k |-> "query", query |-> query],
         IF isLibrarySpecified
         THEN generateLibrarySpecifiedSection(i, libraryContext)
         ELSE generateLibraryDetectionSection,
         [k |-> "rules", maxTopics |-> maxTopics],
         [k |-> "outputFormat"], [k |-> "examples"],
         [k |-> "notice", specified |-> isLibrarySpecified] >>

\* generateExtractionPrompt of the three generations
generateExtractionPrompt(i, a) ==
  LET libraryContext == IF Truthy(a.library)
                        THEN getLibraryConfig(i, LibKey(a.library))
                        ELSE Undefined
  IN  CASE i = "topicIntentExtractor" ->
             Value(generateUnifiedPrompt(i, a.query, Or(a.maxTopics, Num(5)),
                                         libraryContext))
        [] i = "topicIntentExtractor010" ->
             Value(generateUnifiedPrompt(i, a.query, a.maxTopics, libraryContext))
        [] i = "extractAntVTopic" ->
             IF Truthy(a.library) /\ libraryContext = Undefined
             THEN Throw("TypeError",
                        <<"Cannot read properties of undefined (reading 'name')">>)
             ELSE Value(
               << [k |-> "title"],
                  [k |-> "query", query |-> a.query, maxTopics |-> a.maxTopics,
                   library |-> IF Truthy(a.library) THEN libraryContext.o.name
                               ELSE "Auto-detect"],
                  [k |-> "section",
                   heading |-> <<"Phase 1: Library Detection",
                                 IF Truthy(a.library)
                                 THEN " (Skipped - Library Specified)" ELSE " ">>],
                  [k |-> "rules", maxTopics |-> a.maxTopics],
                  [k |-> "outputFormat"], [k |-> "notice"] >>)

\* the library and maxTopics fields of the metadata: of the returned result
\* (failed = FALSE) and of the catch block's result (failed = TRUE)
ExtractorMeta(i, a, failed) ==
  CASE i = "topicIntentExtractor" ->
         [library |-> Or(a.library, Str(<<"g2">>)),
          maxTopics |-> Or(a.maxTopics, Num(5))]
    [] i = "extractAntVTopic" ->
         [library |-> Or(a.library, Str(<<"auto-detect">>)),
          maxTopics |-> a.maxTopics]
    [] i = "topicIntentExtractor010" ->
         IF failed
         THEN [library |-> IF Truthy(a.library)
                              /\ LibKey(a.library) \in DOMAIN ANTV_LIBRARY_META
                           THEN a.library ELSE Str(<<"g2">>),
               maxTopics |-> IF a.maxTopics.t = "number" /\ a.maxTopics.n >= 3
                                /\ (a.maxTopics.n < 8
                                    \/ (a.maxTopics.n = 8 /\ IsInteger(a.maxTopics)))
                             THEN a.maxTopics ELSE Num(5)]
         ELSE [library |-> Or(a.library, Str(<<"g2">>)),
               maxTopics |-> a.maxTopics]

\* run of the extraction tool: the try block and its catch
ExtractorRun(i, a) ==
  LET checked == IF i = "topicIntentExtractor" THEN ExtractorValidateArgs(a)
                 ELSE Value(Undefined)
      done == IF checked.c = "throw" THEN checked
              ELSE generateExtractionPrompt(i, a)
  IN  IF done.c = "throw"
      THEN [escaped |-> FALSE, isError |-> TRUE,
            text |-> <<"Failed to generate extraction task: ">> \o done.message,
            meta |-> ExtractorMeta(i, a, TRUE)
                     @@ [promptGenerated |-> FALSE, error |-> done.message]]
      ELSE [escaped |-> FALSE, isError |-> FALSE, text |-> done.v,
            meta |-> ExtractorMeta(i, a, FALSE) @@ [promptGenerated |-> TRUE]]

---------------------------------------------------------------------------
(* The package detector *)

\* Object.keys(LIBRARY_MAPPING), in the order of the literal
ANTV_LIBRARIES == <<"g2", "s2", "f2", "g6", "x6", "l7">>

\* the characters of a library name
LibChars ==
  [g2 |-> <<"g", "2">>, s2 |-> <<"s", "2">>, f2 |-> <<"f", "2">>,
   g6 |-> <<"g", "6">>, x6 |-> <<"x", "6">>, l7 |-> <<"l", "7">>]

\* FEATURE_PATTERNS: the Latin alternatives of each regular expression (the
\* queries tried are ASCII, which no CJK alternative matches)
FEATURE_PATTERNS ==
  [g2 |-> { <<"c", "h", "a", "r", "t">>,
            <<"b", "a", "r">>,
            <<"l", "i", "n", "e">>,
            <<"p", "i", "e">>,
            <<"s", "c", "a", "t", "t", "e", "r">>,
            <<"a", "r", "e", "a">>,
            <<"h", "i", "s", "t", "o", "g", "r", "a", "m">> },
   g6 |-> { <<"g", "r", "a", "p", "h">>,
            <<"n", "e", "t", "w", "o", "r", "k">>,
            <<"n", "o", "d", "e">>,
            <<"e", "d", "g", "e">> },
   l7 |-> { <<"g", "i", "s">>,
            <<"m", "a", "p">>,
            <<"g", "e", "o">> },
   x6 |-> { <<"d", "i", "a", "g", "r", "a", "m">>,
            <<"e", "d", "i", "t", "o", "r">>,
            <<"f", "l", "o", "w", "c", "h", "a", "r", "t">> },
   f2 |-> { <<"m", "o", "b", "i", "l", "e">>,
            <<"t", "o", "u", "c", "h">>,
            <<"a", "p", "p">> },
   s2 |-> { <<"t", "a", "b", "l", "e">>,
            <<"p", "i", "v", "o", "t">> }]

UpperToLower ==
  ("A" :> "a") @@ ("B" :> "b") @@ ("C" :> "c") @@ ("D" :> "d") @@ ("E" :>
  "e") @@ ("F" :> "f") @@ ("G" :> "g") @@ ("H" :> "h") @@ ("I" :> "i") @@
  ("J" :> "j") @@ ("K" :> "k") @@ ("L" :> "l") @@ ("M" :> "m") @@ ("N" :>
  "n") @@ ("O" :> "o") @@ ("P" :> "p") @@ ("Q" :> "q") @@ ("R" :> "r") @@
  ("S" :> "s") @@ ("T" :> "t") @@ ("U" :> "u") @@ ("V" :> "v") @@ ("W" :>
  "w") @@ ("X" :> "x") @@ ("Y" :> "y") @@ ("Z" :> "z")

\* String.prototype.toLowerCase on a sequence of characters
toLowerCase(s) ==
  [c \in 1..Len(s) |-> IF s[c] \in DOMAIN UpperToLower THEN UpperToLower[s[c]]
                       ELSE s[c]]

\* String.prototype.includes
includes(s, sub) ==
  \E k \in 0..(Len(s) - Len(sub)) : SubSeq(s, k + 1, k + Len(sub)) = sub

\* RegExp.prototype.test of a pattern /a|b|.../i
test(pattern, s) == \E word \in pattern : includes(toLowerCase(s), word)

\* queryLower.includes(lib) || queryLower.includes(`@antv/${lib}`)
mentions(queryLower, lib) ==
  \/ includes(queryLower, LibChars[lib])
  \/ includes(queryLower, <<"@", "a", "n", "t", "v", "/">> \o LibChars[lib])

\* the first of the entries a search has kept, or undefined
FirstOf(hits) == IF hits = <<>> THEN Undefined ELSE Str(<<hits[1]>>)

\* matchFeaturesToLibraries
matchFeaturesToLibraries(query) ==
  SelectSeq(ANTV_LIBRARIES, LAMBDA lib : test(FEATURE_PATTERNS[lib], query))

\* (mutant) explicit mentions only, null when there is none
inferLibraryFromMentionOnly(query) ==
  LET libraryMatch ==
        FirstOf(SelectSeq(ANTV_LIBRARIES,
                          LAMBDA lib : mentions(toLowerCase(query), lib)))
  IN  IF Truthy(libraryMatch) THEN libraryMatch ELSE Null

\* inferLibraryFromQuery
inferLibraryFromQuery(query) ==
  LET queryLower == toLowerCase(query)
      libraryMatch == 
        FirstOf(SelectSeq(ANTV_LIBRARIES, LAMBDA lib : mentions(queryLower, lib)))
      featureMatches == matchFeaturesToLibraries(query)
  IN  IF Truthy(libraryMatch) THEN libraryMatch
      ELSE IF featureMatches # <<>> THEN Str(<<featureMatches[1]>>)
      ELSE Str(<<"g2">>)

\* findBestMatch
findBestMatch(query, installedLibraries) ==
  LET queryLower == toLowerCase(query)
      exact == FirstOf(SelectSeq(installedLibraries,
                                 LAMBDA lib : mentions(queryLower, lib)))
      byFeature == FirstOf(SelectSeq(matchFeaturesToLibraries(query),
                             LAMBDA lib : \E k \in 1..Len(installedLibraries) :
                                            installedLibraries[k] = lib))
  IN  IF exact # Undefined THEN exact
      ELSE IF byFeature # Undefined THEN byFeature
      ELSE Null

\* (mutant) the first installed library, whatever the query
recommendFirstInstalled(query, installed) ==
  IF Len(installed) = 0 THEN inferLibraryFromQuery(query)
  ELSE Str(<<installed[1]>>)

\* recommendLibrary, with the installed list supplied by the caller
recommendLibrary(query, installed) ==
  IF Len(installed) = 0 THEN inferLibraryFromQuery(query)
  ELSE Or(findBestMatch(query, installed), Str(<<installed[1]>>))

---------------------------------------------------------------------------
(* Actions *)

NoResult == [escaped |-> FALSE, isError |-> FALSE, text |-> <<>>,
             meta |-> [hasDocumentation |-> FALSE]]

Init ==
  /\ impl \in Impls
  /\ args \in ValidArgs
  /\ pc = "idle"
  /\ branch = "none"
  /\ reqs = <<>>
  /\ order = <<>>
  /\ result = NoResult

\* the transport calls the handler
Invoke ==
  /\ pc = "idle"
  /\ LET start == Begin(impl, args)
     IN  IF start.c = "throw"
         THEN /\ pc' = "done"
              /\ result' = Catch(args, start)
              /\ UNCHANGED <<branch, reqs>>
         ELSE /\ pc' = "awaiting"
              /\ branch' = start.v.branch
              /\ reqs' = start.v.reqs
              /\ UNCHANGED result
  /\ UNCHANGED <<impl, args, order>>

Settle(j, ev, late) ==
  /\ reqs' = [reqs EXCEPT ![j] =
       [SettledWith(reqs[j], fetchLibraryDocumentation(ClientOf(impl), ev))
          EXCEPT !.expired = late, !.ev = ev]]
  /\ order' = Append(order, j)

\* the response headers of a request arrive; the service client clears its
\* timeout as soon as fetch() resolves
HeadersArrive ==
  \E j \in 1..Len(reqs), resp \in ResponseSamples :
    /\ pc = "awaiting"
    /\ reqs[j].st = "sent"
    /\ IF ok(resp)
       THEN /\ reqs' = [reqs EXCEPT ![j].st = "headers",
                                    ![j].armed = IF ClientOf(impl) = "service"
                                                 THEN FALSE ELSE @]
            /\ UNCHANGED order
       ELSE Settle(j, [k |-> "headers", resp |-> resp], reqs[j].expired)
    /\ UNCHANGED <<impl, args, pc, branch, result>>

\* the body of a request has been read to its end
BodyArrives ==
  \E j \in 1..Len(reqs), text \in BodySamples :
    /\ pc = "awaiting"
    /\ reqs[j].st = "headers"
    /\ Settle(j, [k |-> "body", text |-> text], reqs[j].expired)
    /\ UNCHANGED <<impl, args, pc, branch, result>>

\* the transport fails while a request is in flight
TransportFails ==
  \E j \in 1..Len(reqs) :
    /\ pc = "awaiting"
    /\ IsPending(reqs[j])
    /\ Settle(j, [k |-> "netfail",
                  message |-> IF reqs[j].st = "sent" THEN <<"fetch failed">>
                              ELSE <<"terminated">>],
              reqs[j].expired)
    /\ UNCHANGED <<impl, args, pc, branch, result>>

\* CONTEXT7_TIMEOUT ms have passed since a request was issued: an armed
\* timeout aborts the request, a cleared one does nothing
DeadlinePasses ==
  \E j \in 1..Len(reqs) :
    /\ pc = "awaiting"
    /\ IsPending(reqs[j])
    /\ ~reqs[j].expired
    /\ IF reqs[j].armed
       THEN Settle(j, [k |-> "abort"], TRUE)
       ELSE /\ reqs' = [reqs EXCEPT ![j].expired = TRUE]
            /\ UNCHANGED order
    /\ UNCHANGED <<impl, args, pc, branch, result>>

\* the sequential loop resumes after its await and starts the next sub-task
ContinueLoop ==
  \E j \in 1..Len(reqs) :
    /\ pc = "awaiting"
    /\ j < Len(reqs)
    /\ reqs[j].st = "settled"
    /\ reqs[j + 1].st = "new"
    /\ reqs' = StartFrom(impl, args, reqs, j + 1)
    /\ UNCHANGED <<impl, args, pc, branch, order, result>>

\* every fetch has settled: the handler renders and returns
Join ==
  /\ pc = "awaiting"
  /\ AllSettled(reqs)
  /\ pc' = "done"
  /\ result' = Finish(impl, args, branch, reqs, order)
  /\ UNCHANGED <<impl, args, branch, reqs, order>>

Next ==
  \/ Invoke
  \/ HeadersArrive
  \/ BodyArrives
  \/ TransportFails
  \/ DeadlinePasses
  \/ ContinueLoop
  \/ Join

\* the handler is reached through the transport, which validates the
\* arguments against the input schema first
Spec == Init /\ [][Next]_vars

\* the handler called directly, with any argument object
InitRaw ==
  /\ impl \in Impls
  /\ args \in RawArgs
  /\ pc = "idle"
  /\ branch = "none"
  /\ reqs = <<>>
  /\ order = <<>>
  /\ result = NoResult

SpecRaw == InitRaw /\ [][Next]_vars

\* A tools/call request reaches the tool through the callback the server
\* registered for it.  AntVMCPServer's callback validates the arguments
\* against the tool's schema and throws the error message when they do not
\* parse; AntVMcpServer.handleToolCall hands the arguments to
\* AntVAssistantTool.execute as they are and turns what escapes into a result.
Call ==
  /\ pc = "idle"
  /\ LET checked == validateSchema(QueryAntVDocumentInputSchema(args))
         start == Begin(impl, args)
     IN  IF impl # "assistant" /\ ~checked.success
         THEN /\ pc' = "done"
              /\ result' = [escaped |-> TRUE, name |-> "Error",
                            message |-> checked.errorMessage]
              /\ UNCHANGED <<branch, reqs>>
         ELSE IF start.c = "throw"
         THEN /\ pc' = "done"
              /\ result' = LET caught == Catch(args, start)
                           IN  IF impl = "assistant" /\ caught.escaped
                               THEN formatErrorResult(caught)
                               ELSE caught
              /\ UNCHANGED <<branch, reqs>>
         ELSE /\ pc' = "awaiting"
              /\ branch' = start.v.branch
              /\ reqs' = start.v.reqs
              /\ UNCHANGED result
  /\ UNCHANGED <<impl, args, order>>

InitCall ==
  /\ impl \in Impls
  /\ args \in CallArgs
  /\ pc = "idle"
  /\ branch = "none"
  /\ reqs = <<>>
  /\ order = <<>>
  /\ result = NoResult

NextCall ==
  \/ Call
  \/ HeadersArrive
  \/ BodyArrives
  \/ TransportFails
  \/ DeadlinePasses
  \/ ContinueLoop
  \/ Join

\* the tool called through the server, with any argument object a client
\* may send
SpecCall == InitCall /\ [][NextCall]_vars

\* handleComplexTask with sub-task lists of up to MaxBatch entries, in a
\* network where every fetch fails at the transport
InitBatch ==
  /\ impl \in Impls \ {"assistant"}
  /\ args \in BatchArgs
  /\ pc = "idle"
  /\ branch = "none"
  /\ reqs = <<>>
  /\ order = <<>>
  /\ result = NoResult

NextBatch ==
  \/ Invoke
  \/ TransportFails
  \/ Join

SpecBatch == InitBatch /\ [][NextBatch]_vars

\* run of the extraction tool called with the argument object as it is
RunExtractor ==
  /\ pc = "idle"
  /\ pc' = "done"
  /\ branch' = "direct"
  /\ result' = ExtractorRun(impl, args)
  /\ UNCHANGED <<impl, args, reqs, order>>

\* The extraction tool called through the callback registered for it:
\* AntVMCPServer registers ExtractAntVTopicTool behind validateSchema, which
\* throws the error message; registryTools forwards the arguments to
\* TopicIntentExtractorTool.run.
CallExtractor ==
  /\ pc = "idle"
  /\ pc' = "done"
  /\ branch' = "callback"
  /\ LET checked == validateSchema(ExtractAntVTopicInputSchema(args))
     IN  result' = IF impl = "extractAntVTopic" /\ ~checked.success
                   THEN [escaped |-> TRUE, name |-> "Error",
                         message |-> checked.errorMessage]
                   ELSE ExtractorRun(impl, args)
  /\ UNCHANGED <<impl, args, reqs, order>>

InitExtract ==
  /\ impl \in ExtractTools
  /\ args \in ExtractArgs
  /\ pc = "idle"
  /\ branch = "none"
  /\ reqs = <<>>
  /\ order = <<>>
  /\ result = NoResult

NextExtract ==
  \/ RunExtractor
  \/ CallExtractor

SpecExtract == InitExtract /\ [][NextExtract]_vars

\* recommendLibrary(query, installedLibraries)
Recommend ==
  /\ pc = "idle"
  /\ pc' = "done"
  /\ result' = [value |-> recommendLibrary(args.query, args.installed)]
  /\ UNCHANGED <<impl, args, branch, reqs, order>>

InitRecommend ==
  /\ impl = "recommendLibrary"
  /\ args \in [query : RecommendQueries, installed : InstalledLists]
  /\ pc = "idle"
  /\ branch = "none"
  /\ reqs = <<>>
  /\ order = <<>>
  /\ result = NoResult

NextRecommend == Recommend

SpecRecommend == InitRecommend /\ [][NextRecommend]_vars

---------------------------------------------------------------------------
(* The budget of a sub-task *)

\* the longest sub-task list whose budget is computed; the schema puts no
\* limit on the length, and 1001 is the shortest list that exceeds the
\* smallest total budget
MaxTaskCount == 1001

\* total budgets the schema accepts
BudgetSamples == {CONTEXT7_TOKENS_min, CONTEXT7_TOKENS_default, CONTEXT7_TOKENS_max}

InitBudget ==
  /\ impl = "run"
  /\ args \in [tokens : {Num(t) : t \in BudgetSamples}, count : 1..MaxTaskCount]
  /\ pc = "idle"
  /\ branch = "none"
  /\ reqs = <<>>
  /\ order = <<>>
  /\ result = NoResult

\* handleComplexTask up to the URL of the request of a sub-task
ComputeBudget ==
  /\ pc = "idle"
  /\ pc' = "done"
  /\ LET budget == tokenPerSubTask(impl, args, args.count)
     IN  result' = [tokenPerSubTask |-> budget,
                    url |-> getContext7Url(getLibraryId("g2"),
                                           Task(1).o.topic, Num(budget))]
  /\ UNCHANGED <<impl, args, branch, reqs, order>>

NextBudget == ComputeBudget

SpecBudget == InitBudget /\ [][NextBudget]_vars

---------------------------------------------------------------------------
(* The server process *)

\* The process of src/index.ts, in its two generations (impl): "index"
\* (src/index.ts, shutdown only logs) and "part_007" (unnamed/part_007,
\* shutdown awaits server.close()).  pc is the position of main():
\* "starting" (awaiting server.run()), "finally" (awaiting the shutdown() of
\* its finally block), "returned" or "exited"; reqs holds one record per
\* call of shutdown(), order the process-level faults raised so far, and
\* result the exit code once the process has exited.

\* the most process-level faults raised in one run of the process
MaxFaults == 2

Faults == {"uncaughtException", "unhandledRejection"}

Generations == {"index", "part_007"}

\* (mutant) .then(callback): the callback runs on fulfilment only
thenRuns(st) == st = "resolved"

\* promise.finally(callback): the callback runs however the promise settled
finallyRuns(st) == st \in {"resolved", "rejected"}

\* a call of shutdown() up to its first await: the body of src/index.ts has
\* none and fulfils; part_007 awaits server.close(), the transport being set
\* by run() before anything can fail
shutdown(i, by) ==
  [by |-> by, st |-> IF i = "part_007" THEN "closing" ELSE "resolved"]

exit(code) == [exit |-> code]

InitProcess ==
  /\ impl \in Generations
  /\ args = Undefined
  /\ pc = "starting"
  /\ branch = "stdio"
  /\ reqs = <<>>
  /\ order = <<>>
  /\ result = NoResult

\* server.connect resolves: run() returns and main enters its finally block
ConnectResolves ==
  /\ pc = "starting"
  /\ pc' = "finally"
  /\ reqs' = Append(reqs, shutdown(impl, "main"))
  /\ UNCHANGED <<impl, args, branch, order, result>>

\* server.connect rejects: run() rethrows and the catch block of main exits
ConnectRejects ==
  /\ pc = "starting"
  /\ pc' = "exited"
  /\ result' = exit(1)
  /\ UNCHANGED <<impl, args, branch, reqs, order>>

\* an uncaught exception or unhandled rejection reaches its process.on
\* handler, which calls server.shutdown()
RaiseFault ==
  \E kind \in Faults :
    /\ pc # "exited"
    /\ Len(order) < MaxFaults
    /\ order' = Append(order, kind)
    /\ reqs' = Append(reqs, shutdown(impl, kind))
    /\ UNCHANGED <<impl, args, pc, branch, result>>

\* server.close() of a shutdown() settles; a rejection is rethrown by the
\* catch block of shutdown()
CloseSettles ==
  \E j \in 1..Len(reqs), st \in {"resolved", "rejected"} :
    /\ pc # "exited"
    /\ reqs[j].st = "closing"
    /\ reqs' = [reqs EXCEPT ![j].st = st]
    /\ UNCHANGED <<impl, args, pc, branch, order, result>>

\* the callback of server.shutdown().finally(...) of a handler
ExitAfterShutdown ==
  \E j \in 1..Len(reqs) :
    /\ pc # "exited"
    /\ reqs[j].by \in Faults
    /\ finallyRuns(reqs[j].st)
    /\ pc' = "exited"
    /\ result' = exit(1)
    /\ UNCHANGED <<impl, args, branch, reqs, order>>

\* main resumes after the shutdown() of its finally block: it returns, or
\* it rejects and the catch of main().catch(...) exits
MainResumes ==
  \E j \in 1..Len(reqs) :
    /\ pc = "finally"
    /\ reqs[j].by = "main"
    /\ reqs[j].st \in {"resolved", "rejected"}
    /\ IF reqs[j].st = "resolved"
       THEN pc' = "returned" /\ UNCHANGED result
       ELSE pc' = "exited" /\ result' = exit(1)
    /\ UNCHANGED <<impl, args, branch, reqs, order>>

NextProcess ==
  \/ ConnectResolves
  \/ ConnectRejects
  \/ RaiseFault
  \/ CloseSettles
  \/ ExitAfterShutdown
  \/ MainResumes

\* the event loop runs a callback that is ready, and server.close() settles
SpecProcess ==
  /\ InitProcess
  /\ [][NextProcess]_vars
  /\ WF_vars(CloseSettles)
  /\ WF_vars(ExitAfterShutdown)

---------------------------------------------------------------------------
(* The DeepWiki client singleton *)

\* The module state of src/utils/deepwiki.ts.  result holds the three
\* module-level variables (_client, _transport and _connectingPromise, 0 for
\* null, otherwise the number of the connection attempt that made the
\* object); reqs holds one record per connection attempt (its transport and
\* client): st is "connecting", "connected" or "failed", events the error
\* and close events its transport has reported, each with the state of the
\* attempt at that time; order holds one record per call of getMcpClient:
\* held is _client as the call found it, started whether the call created a
\* transport and a client, attempt the attempt whose promise it returned (0
\* when it returned _client) and got what the caller received (0 while
\* pending, -1 for a rejection, otherwise the client).

\* the most calls of getMcpClient in one behaviour
MaxCalls == 3

\* the most events one transport reports
MaxEvents == 2

Disconnected == [client |-> 0, transport |-> 0, connectingPromise |-> 0]

\* (mutant) a reset that leaves the client in place
resetClientKeepsClient(s) == s

\* resetClient
resetClient(s) == [s EXCEPT !.client = 0, !.transport = 0]

\* (mutant) a finally block that keeps the promise
keepLock(s) == s

\* finally { _connectingPromise = null }
releaseLock(s) == [s EXCEPT !.connectingPromise = 0]

\* (mutant) a call that never waits for the attempt in flight
neverConnecting(s) == FALSE

\* if (_connectingPromise)
isConnecting(s) == s.connectingPromise # 0

\* if (_client && _transport)
hasClient(s) == s.client # 0 /\ s.transport # 0

InitDeepWiki ==
  /\ impl = "deepwiki"
  /\ args = Undefined
  /\ pc = "loaded"
  /\ branch = "sse"
  /\ reqs = <<>>
  /\ order = <<>>
  /\ result = Disconnected

\* getMcpClient, as queryDeepWiki calls it, up to the promise it returns: the
\* client it holds, the promise of the attempt in flight, or a new attempt
\* that runs up to its await of client.connect
getMcpClient ==
  /\ Len(order) < MaxCalls
  /\ IF hasClient(result)
     THEN /\ order' = Append(order, [held |-> result.client, started |-> FALSE,
                                     attempt |-> 0, got |-> result.client])
          /\ UNCHANGED <<reqs, result>>
     ELSE IF isConnecting(result)
     THEN /\ order' = Append(order, [held |-> result.client, started |-> FALSE,
                                     attempt |-> result.connectingPromise,
                                     got |-> 0])
          /\ UNCHANGED <<reqs, result>>
     ELSE /\ reqs' = Append(reqs, [st |-> "connecting", events |-> <<>>])
          /\ result' = [result EXCEPT !.connectingPromise = Len(reqs) + 1]
          /\ order' = Append(order, [held |-> result.client, started |-> TRUE,
                                     attempt |-> Len(reqs) + 1, got |-> 0])
  /\ UNCHANGED <<impl, args, pc, branch>>

\* what the callers that wait for attempt j receive
Deliver(j, outcome) ==
  [c \in 1..Len(order) |->
     IF order[c].attempt = j /\ order[c].got = 0
     THEN [order[c] EXCEPT !.got = outcome] ELSE order[c]]

\* client.connect(transport) of attempt j resolves: the module variables
\* are assigned and the finally block releases the lock
ConnectSucceeds ==
  \E j \in 1..Len(reqs) :
    /\ reqs[j].st = "connecting"
    /\ reqs' = [reqs EXCEPT ![j].st = "connected"]
    /\ result' = releaseLock([result EXCEPT !.client = j, !.transport = j])
    /\ order' = Deliver(j, j)
    /\ UNCHANGED <<impl, args, pc, branch>>

\* client.connect(transport) of attempt j rejects: the catch block resets
\* and rethrows, the finally block releases the lock
ConnectFails ==
  \E j \in 1..Len(reqs) :
    /\ reqs[j].st = "connecting"
    /\ reqs' = [reqs EXCEPT ![j].st = "failed"]
    /\ result' = releaseLock(resetClient(result))
    /\ order' = Deliver(j, -1)
    /\ UNCHANGED <<impl, args, pc, branch>>

\* transport.onerror / transport.onclose of the transport of attempt j: the
\* handlers stay installed on every transport the module has created
TransportReports ==
  \E j \in 1..Len(reqs), kind \in {"error", "close"} :
    /\ Len(reqs[j].events) < MaxEvents
    /\ reqs' = [reqs EXCEPT ![j].events =
                  Append(@, [kind |-> kind, during |-> reqs[j].st])]
    /\ result' = resetClient(result)
    /\ UNCHANGED <<impl, args, pc, branch, order>>

NextDeepWiki ==
  \/ getMcpClient
  \/ ConnectSucceeds
  \/ ConnectFails
  \/ TransportReports

\* client.connect settles, one way or the other
ConnectSettles == ConnectSucceeds \/ ConnectFails

SpecDeepWiki ==
  /\ InitDeepWiki
  /\ [][NextDeepWiki]_vars
  /\ WF_vars(ConnectSettles)

---------------------------------------------------------------------------
(* The dependency cache of the package detector *)

\* args is the filesystem (for each directory the AntV libraries that its
\* package.json and node_modules show), result the cachedDependencies field
\* (Null, or the cached Set) and order the calls made so far: for a call of
\* detectInstalledAntVLibraries the working directory, whether the
\* filesystem was read, whether the try block threw, and the libraries
\* returned.

\* the most calls in one behaviour
MaxOps == 3

WorkingDirs == {"/app", "/lib"}

\* process.cwd()
Cwd == "/app"

\* the workingDir argument: left out, a directory, or a value that is not a
\* string, on which path.join throws
WorkingDirArgs == {Undefined, Str(<<"/app">>), Str(<<"/lib">>), Num(5)}

\* const baseDir = workingDir || process.cwd()
BaseDir(workingDir) == IF Truthy(workingDir) THEN workingDir ELSE Str(<<Cwd>>)

InstalledSets == {{}, {"g2"}, {"g2", "l7"}}

Cached(set) == [set |-> set]

\* (mutant) an empty Set taken for no cache
isCachedNonEmpty(cache) == cache # Null /\ cache # Cached({})

\* if (this.cachedDependencies): a Set is truthy, also when it is empty
isCached(cache) == cache # Null

InitDetect ==
  /\ impl = "detectInstalledAntVLibraries"
  /\ args \in [WorkingDirs -> InstalledSets]
  /\ pc = "idle"
  /\ branch = "none"
  /\ reqs = <<>>
  /\ order = <<>>
  /\ result = Null

\* detectInstalledAntVLibraries(workingDir)
Detect ==
  \E dir \in WorkingDirArgs :
    /\ Len(order) < MaxOps
    /\ IF isCached(result)
       THEN /\ order' = Append(order, [op |-> "detect", dir |-> dir,
                                       read |-> FALSE, failed |-> FALSE,
                                       returned |-> result.set])
            /\ UNCHANGED result
       ELSE IF BaseDir(dir).t # "string"
       THEN /\ order' = Append(order, [op |-> "detect", dir |-> dir,
                                       read |-> FALSE, failed |-> TRUE,
                                       returned |-> {}])
            /\ UNCHANGED result
       ELSE /\ order' = Append(order, [op |-> "detect", dir |-> dir,
                                       read |-> TRUE, failed |-> FALSE,
                                       returned |-> args[BaseDir(dir).s[1]]])
            /\ result' = Cached(args[BaseDir(dir).s[1]])
    /\ UNCHANGED <<impl, args, pc, branch, reqs>>

\* clearCache()
clearCache ==
  /\ Len(order) < MaxOps
  /\ order' = Append(order, [op |-> "clearCache"])
  /\ result' = Null
  /\ UNCHANGED <<impl, args, pc, branch, reqs>>

\* a package is installed or removed between two calls
FilesystemChanges ==
  \E dir \in WorkingDirs, set \in InstalledSets :
    /\ Len(order) < MaxOps
    /\ set # args[dir]
    /\ args' = [args EXCEPT ![dir] = set]
    /\ UNCHANGED <<impl, pc, branch, reqs, order, result>>

NextDetect ==
  \/ Detect
  \/ clearCache
  \/ FilesystemChanges

SpecDetect == InitDetect /\ [][NextDetect]_vars

---------------------------------------------------------------------------
(* Properties *)

\* text with at least one character that is not white space
NonBlank(v) == v.t = "string" /\ \E c \in 1..Len(v.s) : v.s[c] \notin WhiteSpace

\* the sub-sections of a returned complex response, in rendering order
Sections == SelectSeq(result.text, LAMBDA b : b.k = "subtask")

\* the aggregate summary block of a returned complex response
Summary == SelectSeq(result.text, LAMBDA b : b.k = "summary")[1]

\* the number of fetches of the invocation that returned documentation
Succeeded ==
  Cardinality({j \in 1..Len(reqs) : NonBlank(reqs[j].out.documentation)})

Returned == pc = "done" /\ ~result.escaped /\ ~result.isError

StatusDigits(status) ==
  CASE status = 404 -> <<"4", "0", "4">>
    [] status = 500 -> <<"5", "0", "0">>

Contains(msg, part) ==
  \E i \in 1..Len(msg) :
    i + Len(part) - 1 =< Len(msg) /\ SubSeq(msg, i, i + Len(part) - 1) = part

\* C1: the hasDocumentation field of the returned metadata is true exactly
\* when at least one fetch of the invocation returned documentation that is
\* non-null and not blank, and so is false when every fetch returned null,
\* whether or not the fetches failed.
C1_HasDocumentationIffSomeFetchHasText ==
  pc = "done" =>
    (result.meta.hasDocumentation <=>
       \E j \in 1..Len(reqs) : NonBlank(reqs[j].out.documentation))

C1_Witness ==
  /\ pc = "done"
  /\ impl = "run"
  /\ branch = "complex"
  /\ Len(reqs) = 3
  /\ result.meta.hasDocumentation
  /\ NonBlank(reqs[2].out.documentation)
  /\ "error" \in DOMAIN reqs[1].out
  /\ "error" \in DOMAIN reqs[3].out

\* C2: in the sub-task branch the j-th rendered sub-section shows the query
\* and the topic of the j-th caller-supplied sub-task and the outcome of the
\* request that was issued for that sub-task's topic, whatever the order in
\* which the requests settled.
C2_SectionsFollowSubTaskOrder ==
  (Returned /\ branch = "complex" /\ impl \in {"run", "docCheck"}) =>
    /\ Len(Sections) = Len(args.subTasks.a)
    /\ \A j \in 1..Len(Sections) :
         LET task == args.subTasks.a[j].o
             r == CHOOSE x \in 1..Len(reqs) : reqs[x].url.topic = task.topic
             doc == reqs[r].out.documentation
         IN  /\ Sections[j].index = j
             /\ Sections[j].query = task.query
             /\ Sections[j].topic = task.topic
             /\ IF NonBlank(doc)
                THEN Sections[j].documentation = doc /\ ~Sections[j].warning
                ELSE Sections[j].documentation = Undefined /\ Sections[j].warning

C2_Witness ==
  /\ Returned
  /\ impl = "run"
  /\ Len(reqs) = 3
  /\ order = <<3, 2, 1>>
  /\ Sections[1].documentation = Str(<<" ", "d", "\n">>)
  /\ Sections[2].warning
  /\ Sections[3].documentation = Str(<<" ">> \o NO_CONTENT)

\* C3: in the sub-task branch a failed fetch does not fail the call: the
\* result is not an error, it has one sub-section per sub-task, the
\* sub-section of a failed sub-task shows the warning with that fetch's error
\* message, and every sub-task whose fetch returned documentation shows it.
C3_FailedSubTaskIsRenderedInline ==
  (pc = "done" /\ branch = "complex" /\ impl \in {"run", "docCheck"}) =>
    /\ Returned
    /\ Len(Sections) = Len(reqs)
    /\ \A j \in 1..Len(reqs) :
         IF "error" \in DOMAIN reqs[j].out
         THEN /\ Sections[j].warning
              /\ Sections[j].error = reqs[j].out.error
              /\ Sections[j].documentation = Undefined
         ELSE NonBlank(reqs[j].out.documentation) =>
                /\ Sections[j].documentation = reqs[j].out.documentation
                /\ ~Sections[j].warning

C3_Witness ==
  /\ Returned
  /\ impl = "run"
  /\ Len(reqs) = 3
  /\ reqs[2].ev.k = "netfail"
  /\ Sections[2].error = Str(<<"fetch failed">>)
  /\ NonBlank(Sections[1].documentation)
  /\ NonBlank(Sections[3].documentation)
  /\ result.meta.hasDocumentation

\* C4 as stated: with s of N sub-task fetches succeeded the summary is the
\* complete tier when s = N, the partial tier when N/2 < s < N and the lowest
\* tier when s <= N/2.
C4_TierByHalf ==
  (Returned /\ branch = "complex" /\ impl \in {"run", "docCheck"}) =>
    LET s == Succeeded
        n == Len(reqs)
    IN  Summary.tier = IF s = n THEN "complete"
                       ELSE IF 2 * s > n THEN "partial"
                       ELSE IF impl = "run" THEN "limited"
                       ELSE "insufficient"

\* C4 amended: generateComplexTaskSummary classifies by half (complete when
\* s = N, partial when N/2 < s < N, insufficient when s <= N/2), while
\* handleComplexTask gives the complete tier when s = N, the partial tier
\* whenever 0 < s < N and its lowest tier only when s = 0.
C4_TierPerHandler ==
  (Returned /\ branch = "complex") =>
    LET s == Succeeded
        n == Len(reqs)
    IN  /\ Summary.found = s
        /\ Summary.total = n
        /\ Summary.tier =
             IF impl = "run"
             THEN (IF s = n THEN "complete"
                   ELSE IF s > 0 THEN "partial" ELSE "limited")
             ELSE (IF s = n THEN "complete"
                   ELSE IF 2 * s > n THEN "partial" ELSE "insufficient")

C4_Witness ==
  /\ Returned
  /\ impl = "run"
  /\ Len(reqs) = 3
  /\ Succeeded = 1
  /\ Summary.tier = "partial"

\* The requests issued for the sub-tasks all carry the budget
\* min(floor(T / N), cap).
SubTaskBudgetIs(cap) ==
  \A j \in 1..Len(reqs) :
    reqs[j].st # "new" =>
      LET q == args.tokens.n \div Len(reqs)
      IN  reqs[j].url.tokens = IF q < cap THEN q ELSE cap

\* C5 as stated: every sub-task fetch is issued with min(floor(T / N), 1000).
C5_BudgetCap1000 ==
  (branch = "complex" /\ impl \in {"run", "assistant"}) => SubTaskBudgetIs(1000)

\* C5 amended: every sub-task fetch of a batch is issued with the same
\* budget min(floor(T / N), cap), where cap is 1000 in handleComplexTask and
\* in part_013's handleComplexTaskWithDocCheck, and 2000 in
\* AntVAssistantTool.handleComplexTaskWithDocCheck.
C5_BudgetCapPerHandler ==
  branch = "complex" =>
    SubTaskBudgetIs(IF impl = "assistant" THEN 2000 ELSE 1000)

C5_Witness ==
  /\ impl = "run"
  /\ branch = "complex"
  /\ args.tokens.n = 6000
  /\ Len(reqs) = 3
  /\ \A j \in 1..3 : reqs[j].st = "settled" /\ reqs[j].url.tokens = 1000

\* C6: in the sub-task branch every fetch has been started by the time the
\* handler is suspended on any of them, and the handler returns only after
\* every fetch has settled.
C6_AllStartedBeforeAnyAwait ==
  /\ (pc = "awaiting" /\ branch = "complex") =>
       \A j \in 1..Len(reqs) : reqs[j].st # "new"
  /\ (pc = "done" /\ branch = "complex") =>
       \A j \in 1..Len(reqs) : reqs[j].st = "settled"

\* the three outcomes of a fetch
ThreeWay(out) ==
  \/ DOMAIN out = {"documentation"} /\ NonBlank(out.documentation)
  \/ out = [documentation |-> Null]
  \/ /\ DOMAIN out = {"documentation", "error"}
     /\ out.documentation = Null
     /\ out.error.t = "string" /\ out.error.s # <<>>

C8_TimeoutIsNormalized ==
  \A j \in 1..Len(reqs) :
    (ClientOf(impl) = "utils" /\ reqs[j].expired) =>
      /\ reqs[j].st = "settled"
      /\ reqs[j].out = [documentation |-> Null, error |-> Str(<<"Timeout error">>)]

\* C9: for a 2xx response the outcome is {documentation: null}, without an
\* error, exactly when the body is empty, white space only or equal to one of
\* the two sentinels; every other body is returned unchanged.
C9_BodyNormalization ==
  \A j \in 1..Len(reqs) :
    (reqs[j].st = "settled" /\ reqs[j].ev # Undefined /\ reqs[j].ev.k = "body") =>
      LET text == reqs[j].ev.text
          empty == \A c \in 1..Len(text) : text[c] \in WhiteSpace
          sentinel == text \in {NO_CONTENT, NO_CONTEXT_DATA}
      IN  IF empty \/ sentinel
          THEN reqs[j].out = [documentation |-> Null]
          ELSE reqs[j].out = [documentation |-> Str(text)]

C9_Witness ==
  \E j \in 1..Len(reqs) :
    /\ impl = "run"
    /\ reqs[j].st = "settled"
    /\ reqs[j].ev = [k |-> "body", text |-> <<" ">> \o NO_CONTENT]
    /\ reqs[j].out = [documentation |-> Str(<<" ">> \o NO_CONTENT)]

\* C10: whatever the argument object, no exception leaves
\* QueryAntVDocumentTool.run: the call ends with a result, and a call whose
\* body threw ends with isError true and hasDocumentation false.
C10_NoExceptionEscapes ==
  (impl = "run" /\ pc = "done") =>
    /\ ~result.escaped
    /\ result.isError => ~result.meta.hasDocumentation

\* the six library slugs of the documented registry
KnownSlugs == {"g2", "g6", "l7", "x6", "f2", "s2"}

\* the argument object breaks one of the validation rules of the query tool
InvalidArgs ==
  \/ args.library \notin KnownSlugs
  \/ args.query.s = <<>>
  \/ args.topic.s = <<>>
  \/ args.intent = ""
  \/ ~IsInteger(args.tokens)
  \/ args.tokens.n < 1000
  \/ args.tokens.n > 20000

\* C11: a call of the query tool with invalid arguments (unknown library,
\* empty query, topic or intent, tokens not an integer, below 1000 or above
\* 20000) issues no fetch and ends with an isError result that carries a
\* message, not with an exception; a call with tokens = 5000 passes and its
\* fetch carries 5000.
C11_InvalidArgsAreRejectedBeforeIO ==
  /\ InvalidArgs =>
       /\ reqs = <<>>
       /\ pc = "done" =>
            ~result.escaped /\ result.isError /\ result.text # <<>>
  /\ (~InvalidArgs /\ args.tokens.n = 5000 /\ branch = "simple") =>
       reqs[1].url.tokens = 5000

\* the query is a string that is empty or white space only
BlankQuery == args.query.t = "string" /\ trim(args.query.s) = <<>>

\* the message of the result, or of the exception, has this part
Says(part) ==
  LET text == IF result.escaped THEN result.message ELSE result.text
  IN  \E c \in 1..Len(text) : text[c] = part

\* the prompt has a section headed 'Phase 1: Library Detection'
HasPhase1 ==
  \E c \in 1..Len(result.text) :
    /\ result.text[c].k = "section"
    /\ Head(result.text[c].heading) = "Phase 1: Library Detection"

\* C12: for a query that is empty or white space only the extraction tool
\* returns, and does not throw, a result with isError true and
\* promptGenerated false whose message says that the query cannot be empty.
C12_BlankQueryIsAnErrorResult ==
  (pc = "done" /\ impl \in {"topicIntentExtractor", "extractAntVTopic"}
     /\ BlankQuery) =>
    /\ ~result.escaped
    /\ result.isError
    /\ ~result.meta.promptGenerated
    /\ Says("Query content cannot be empty")

\* a call the extraction tool accepts, with the library left out
LibraryOmitted ==
  /\ pc = "done"
  /\ args.query.t = "string" /\ ~BlankQuery
  /\ args.library = Undefined
  /\ args.maxTopics \in {Undefined, Num(3), Num(5), Num(8)}

C14_ErrorResultHasSafeFallbacks ==
  (pc = "done" /\ branch = "direct"
     /\ impl \in {"topicIntentExtractor", "topicIntentExtractor010"}) =>
    /\ ~result.escaped
    /\ result.isError =>
         LET library == result.meta.library
             maxTopics == result.meta.maxTopics
             inRange(v) == IsInteger(v) /\ v.n >= 3 /\ v.n =< 8
         IN  /\ LibKey(library) \in KnownSlugs
             /\ LibKey(args.library) \notin KnownSlugs => library = Str(<<"g2">>)
             /\ inRange(maxTopics)
             /\ ~inRange(args.maxTopics) => maxTopics = Num(5)

\* a direct run of TopicIntentExtractorTool with a query that passes and a
\* library that is a non-empty string, so that validateArgs asks
\* isValidLibrary
LibraryChecked ==
  /\ pc = "done" /\ impl = "topicIntentExtractor" /\ branch = "direct"
  /\ args.query.t = "string" /\ ~BlankQuery
  /\ args.library.t = "string" /\ args.library.s # <<>>

\* C15: isValidLibrary(id) is true for each of the six slugs g2, g6, l7, x6,
\* f2, s2 and false for every other string ('unknown', and names every
\* object inherits such as 'toString' or 'constructor'), so the run that
\* asks it is an error exactly for the other strings; for each of the six
\* slugs getLibraryConfig(id) is a descriptor whose id is the input.
C15_ValidLibraryIsOneOfSixSlugs ==
  LibraryChecked =>
    LET id == LibKey(args.library)
    IN  /\ isValidLibrary(id) <=> id \in KnownSlugs
        /\ result.isError <=> id \notin KnownSlugs
        /\ id \in KnownSlugs => getLibraryConfig(impl, id).o.id = id
\* C16: the registry holds exactly the six identifiers g2, g6, l7, x6, f2,
\* s2, so the library enum of the input schema accepts these and no other; a
\* call with any other library value is rejected at validation, before the
\* tool body runs: it issues no fetch and ends as a failure.
C16_RegistryIsTheSixSlugs ==
  /\ DOMAIN ANTV_LIBRARY_META = KnownSlugs
  /\ args.library \notin KnownSlugs =>
       /\ reqs = <<>>
       /\ pc # "awaiting"
       /\ pc = "done" => (result.escaped \/ result.isError)
\* the caller supplied a non-empty sub-task list
HasSubTasks == Truthy(args.subTasks) /\ Length(args.subTasks) > 0

\* the handler decomposes the query by itself
AutoDecomposed ==
  ~HasSubTasks /\ impl = "assistant" /\ isComplexTask(args.query, args.topic)

\* the requests of the invocation are one per entry of units, in that order,
\* each settled at most once, and all of them settled when the handler is done
OneRequestPer(units) ==
  /\ Len(reqs) = Len(units)
  /\ \A j \in 1..Len(reqs) : reqs[j].task = units[j]
  /\ \A j, k \in 1..Len(order) : order[j] = order[k] => j = k
  /\ pc = "done" => AllSettled(reqs) /\ Len(order) = Len(reqs)

\* the single request of the simple branch asks for the whole budget
FullBudget == reqs[1].url.tokens = args.tokens.n

\* C17 as stated: an invocation of the query tool issues one request with
\* the full token budget when subTasks is absent or empty and one request
\* per sub-task otherwise; a fetch that failed or returned no content is
\* never retried.
C17_OneRequestPerUnitOfWork ==
  branch # "none" =>
    IF HasSubTasks
    THEN OneRequestPer(args.subTasks.a)
    ELSE OneRequestPer(<<Undefined>>) /\ FullBudget

\* C17 amended: as stated for QueryAntVDocumentTool.run, and for
\* AntVAssistantTool.execute when subTasks is given or the query is not
\* complex; AntVAssistantTool.execute without subTasks and with a query it
\* judges complex issues one request per sub-task it extracts from the
\* topic.  No request is ever issued twice.
C17_OneRequestPerUnitPerHandler ==
  branch # "none" =>
    IF HasSubTasks
    THEN OneRequestPer(args.subTasks.a)
    ELSE IF AutoDecomposed
    THEN OneRequestPer(extractSubTasks(args.query, args.topic, args.intent))
    ELSE OneRequestPer(<<Undefined>>) /\ FullBudget

C17_Witness ==
  /\ pc = "done"
  /\ impl = "run"
  /\ HasSubTasks
  /\ Len(reqs) = 2
  /\ reqs[1].out.documentation = Null
  /\ reqs[2].out.documentation # Null
\* the fetches of the invocation that are in flight
InFlight == {j \in 1..Len(reqs) : IsPending(reqs[j])}

\* C18: in any single invocation of the query tool the number of sub-task
\* fetches in flight at the same time never exceeds 4, the number of
\* sub-tasks processed being capped at 2 to 4.
C18_AtMostFourFetchesInFlight ==
  branch = "complex" =>
    /\ Cardinality(InFlight) =< 4
    /\ Len(reqs) =< 4
\* the response has a block of this kind
HasBlock(kind) == \E c \in 1..Len(result.text) : result.text[c].k = kind

\* C19: when the fetch outcome of a simple query is {documentation: null}
\* with no error, the response is the neutral no-documentation notice with
\* the suggestions and has no 'Error:' line; an 'Error: <message>' line is in
\* the response only when the outcome carries an error message.
C19_ErrorLineOnlyWithAnError ==
  (pc = "done" /\ branch = "simple" /\ impl \in {"run", "docCheck"}
     /\ ~result.isError) =>
    LET out == reqs[1].out
    IN  /\ HasBlock("error") => Truthy(ErrorOf(out))
        /\ (out.documentation = Null /\ ~Truthy(ErrorOf(out))) =>
             HasBlock("noDocumentation") /\ HasBlock("suggestions")
\* the query names the library, in any letter case
Mentioned(lib) == includes(toLowerCase(args.query), LibChars[lib])

\* the query has a word of the library's feature pattern
FeatureOf(lib) == test(FEATURE_PATTERNS[lib], args.query)

\* position of a library in a list (0 when it is not there)
IndexIn(list, lib) ==
  IF \E k \in 1..Len(list) : list[k] = lib
  THEN CHOOSE k \in 1..Len(list) : list[k] = lib
  ELSE 0

\* recommendLibrary has returned for a non-empty installed list
Recommended == pc = "done" /\ Len(args.installed) > 0

\* the value returned is a library of the installed list
ReturnsInstalled ==
  /\ result.value.t = "string"
  /\ IndexIn(args.installed, result.value.s[1]) > 0

\* C20 as stated: for a non-empty installed list recommendLibrary never
\* returns null and always returns a member of the list: the installed
\* library the query mentions when there is one, otherwise the first library
\* of the list.
C20_MentionedElseFirstInstalled ==
  Recommended =>
    /\ ReturnsInstalled
    /\ IF \E k \in 1..Len(args.installed) : Mentioned(args.installed[k])
       THEN Mentioned(result.value.s[1])
       ELSE result.value.s[1] = args.installed[1]

\* C20 amended: never null and always a member of the installed list: the
\* first library of the list that the query mentions when there is one;
\* otherwise the first library in registry order (g2, s2, f2, g6, x6, l7)
\* that is installed and whose feature pattern matches the query; otherwise
\* the first library of the list.
C20_MentionedElseFeatureElseFirst ==
  Recommended =>
    LET inst == args.installed
        r == result.value.s[1]
    IN  /\ ReturnsInstalled
        /\ IF \E k \in 1..Len(inst) : Mentioned(inst[k])
           THEN /\ Mentioned(r)
                /\ \A k \in 1..(IndexIn(inst, r) - 1) : ~Mentioned(inst[k])
           ELSE IF \E k \in 1..Len(inst) : FeatureOf(inst[k])
           THEN /\ FeatureOf(r)
                /\ \A k \in 1..(IndexIn(ANTV_LIBRARIES, r) - 1) :
                     ~(FeatureOf(ANTV_LIBRARIES[k])
                       /\ IndexIn(inst, ANTV_LIBRARIES[k]) > 0)
           ELSE r = inst[1]

C20_Witness ==
  /\ pc = "done"
  /\ args.query = <<"u", "s", "e", " ", "G", "6", " ", "m", "a", "p">>
  /\ args.installed = <<"g2", "l7", "g6">>
  /\ result.value = Str(<<"g6">>)
\* recommendLibrary has returned for an empty installed list
Inferred == pc = "done" /\ impl = "recommendLibrary" /\ Len(args.installed) = 0

\* some library of the registry is named in the query
SomeMentioned == \E k \in 1..Len(ANTV_LIBRARIES) : Mentioned(ANTV_LIBRARIES[k])

\* C21 as stated: with an empty installed list recommendLibrary returns the
\* library whose slug or '@antv/<slug>' token the query mentions when there
\* is one, and null when the query matches nothing.
C21_MentionedElseNull ==
  Inferred =>
    IF SomeMentioned
    THEN result.value.t = "string" /\ Mentioned(result.value.s[1])
    ELSE result.value = Null

\* C21 amended: with an empty installed list recommendLibrary never returns
\* null: it returns the first library in registry order (g2, s2, f2, g6, x6,
\* l7) that the query mentions; otherwise the first library in registry
\* order whose feature pattern matches the query; otherwise 'g2'.
C21_MentionedElseFeatureElseG2 ==
  Inferred =>
    LET r == result.value.s[1]
        before == 1..(IndexIn(ANTV_LIBRARIES, r) - 1)
    IN  /\ result.value.t = "string"
        /\ IndexIn(ANTV_LIBRARIES, r) > 0
        /\ IF SomeMentioned
           THEN Mentioned(r) /\ \A k \in before : ~Mentioned(ANTV_LIBRARIES[k])
           ELSE IF \E k \in 1..Len(ANTV_LIBRARIES) : FeatureOf(ANTV_LIBRARIES[k])
           THEN FeatureOf(r) /\ \A k \in before : ~FeatureOf(ANTV_LIBRARIES[k])
           ELSE r = "g2"

C21_Witness ==
  /\ Inferred
  /\ args.query = <<"@", "a", "n", "t", "v", "/", "l", "7">>
  /\ result.value = Str(<<"l7">>)
\* the process has exited with code 1
ExitedWithOne == pc = "exited" /\ result = exit(1)

\* every fault raised has had its call of shutdown()
ShutdownAttempted ==
  Len(SelectSeq(reqs, LAMBDA r : r.by \in Faults)) = Len(order)

\* C22: whenever an uncaught exception or an unhandled rejection is raised,
\* or the server fails to start, the process eventually exits with code 1;
\* for the two process-level faults the exit comes only after shutdown() has
\* been attempted, and it comes also when shutdown() fails.
C22_FaultLeadsToExitOne ==
  /\ [](pc = "exited" => result = exit(1) /\ ShutdownAttempted)
  /\ [][ConnectRejects => ExitedWithOne']_vars
  /\ (order # <<>>) ~> ExitedWithOne

C22_Witness ==
  /\ ExitedWithOne
  /\ impl = "part_007"
  /\ order = <<"uncaughtException">>
  /\ \E j \in 1..Len(reqs) :
       reqs[j].by = "uncaughtException" /\ reqs[j].st = "rejected"
\* C23: getLibraryId is one-to-one: it returns '/antvis/' followed by the
\* slug (getLibraryId('g2') = '/antvis/g2'), two different slugs never get
\* the same id, and the URL of every request built from the id has the path
\* /v1/antvis/<slug> and carries type=txt.
C23_LibraryIdIsOneToOne ==
  /\ getLibraryId("g2") = <<"/", "antvis", "/", "g2">>
  /\ \A a, b \in DOMAIN ANTV_LIBRARY_META :
       getLibraryId(a) = getLibraryId(b) => a = b
  /\ \A j \in 1..Len(reqs) :
       reqs[j].url # Undefined =>
         /\ reqs[j].url.path = <<"/v1/", "antvis", "/", args.library>>
         /\ reqs[j].url.type = "txt"

C23_Witness ==
  /\ pc = "done"
  /\ args.library = "l7"
  /\ Len(reqs) = 1
  /\ reqs[1].url.path = <<"/v1/", "antvis", "/", "l7">>
  /\ reqs[1].url.type = "txt"
\* the connection attempts that are in flight
Connecting == {j \in 1..Len(reqs) : reqs[j].st = "connecting"}

\* C24: for any interleaving of getMcpClient calls made while no client is
\* connected, at most one connection attempt (one new transport and one new
\* client) is in flight at any time and all those callers receive the
\* outcome of that one attempt; once it has succeeded, a later call that
\* finds the client in place gets that client and does not connect again.
C24_OneAttemptInFlight ==
  /\ Cardinality(Connecting) =< 1
  /\ Len(reqs) = Len(SelectSeq(order, LAMBDA c : c.started))
  /\ \A c \in 1..Len(order) :
       LET call == order[c]
       IN  IF call.held # 0
           THEN ~call.started /\ call.attempt = 0 /\ call.got = call.held
           ELSE /\ call.attempt \in 1..Len(reqs)
                /\ call.got = CASE reqs[call.attempt].st = "connecting" -> 0
                                 [] reqs[call.attempt].st = "connected" ->
                                      call.attempt
                                 [] reqs[call.attempt].st = "failed" -> -1

C24_Witness ==
  /\ Len(order) = 3
  /\ Len(reqs) = 1
  /\ reqs[1].st = "connected"
  /\ order[1].started /\ ~order[2].started /\ order[2].attempt = 1
  /\ order[2].held = 0 /\ order[2].got = 1
  /\ order[3].held = 1 /\ order[3].got = 1
\* the transport of attempt j has reported an event while connected
ReportedWhileConnected(j) ==
  \E e \in 1..Len(reqs[j].events) : reqs[j].events[e].during = "connected"

\* this step is an event of the transport the singleton holds
CurrentTransportReports ==
  /\ result.transport # 0
  /\ Len(reqs') = Len(reqs)
  /\ Len(reqs'[result.transport].events) > Len(reqs[result.transport].events)

\* this step is a call of getMcpClient
IsCall == Len(order') = Len(order) + 1

\* C25: whenever the connected DeepWiki transport reports an error or a
\* close event the singleton returns to the disconnected state, client and
\* transport both cleared, and the next call starts a new connection
\* instead of reusing the dead client.
C25_EventOfConnectedTransportResets ==
  /\ [][CurrentTransportReports =>
          result'.client = 0 /\ result'.transport = 0]_vars
  /\ [](\A j \in 1..Len(reqs) :
          ReportedWhileConnected(j) => result.client # j)
  /\ [][(IsCall /\ result = Disconnected) =>
          /\ Len(reqs') = Len(reqs) + 1
          /\ reqs'[Len(reqs')].st = "connecting"
          /\ order'[Len(order')].attempt = Len(reqs')]_vars

C25_Witness ==
  /\ Len(reqs) = 2
  /\ reqs[1].st = "connected"
  /\ reqs[1].events = << [kind |-> "error", during |-> "connected"] >>
  /\ reqs[2].st = "connecting"
  /\ Len(order) = 2
  /\ order[2].started
  /\ result = [client |-> 0, transport |-> 0, connectingPromise |-> 2]
\* no clearCache() between the calls c and d
NoClearBetween(c, d) == \A k \in (c + 1)..(d - 1) : order[k].op # "clearCache"

\* call c is a detection that read the filesystem and completed
Completed(c) == order[c].op = "detect" /\ order[c].read /\ ~order[c].failed

\* C26: after detectInstalledAntVLibraries has once completed, every later
\* call returns the same set without reading the filesystem, whatever the
\* working directory, until clearCache() is called; the first call after
\* clearCache() detects from the filesystem again, and a detection that
\* failed leaves the cache unset.
C26_CachedUntilCleared ==
  /\ \A c, d \in 1..Len(order) :
       (c < d /\ Completed(c) /\ order[d].op = "detect" /\ NoClearBetween(c, d))
         => /\ ~order[d].read /\ ~order[d].failed
            /\ order[d].returned = order[c].returned
  /\ \A d \in 2..Len(order) :
       (order[d - 1].op = "clearCache" /\ order[d].op = "detect")
         => order[d].read \/ order[d].failed
  /\ (order # <<>> /\ order[Len(order)].op = "detect"
        /\ order[Len(order)].failed) => result = Null

C26_Witness ==
  /\ Len(order) = 3
  /\ Completed(1) /\ order[1].dir = Undefined /\ order[1].returned = {}
  /\ order[2].op = "detect" /\ order[2].dir = Str(<<"/lib">>)
  /\ ~order[2].read
  /\ args["/lib"] = {"g2", "l7"}
  /\ order[2].returned = {}
  /\ order[3].op = "clearCache"
  /\ result = Null
\* this step is an event of a transport other than the one the singleton
\* holds, while it holds an established connection
StaleTransportReports ==
  /\ hasClient(result)
  /\ Len(reqs') = Len(reqs)
  /\ \E j \in 1..Len(reqs) :
       /\ j # result.transport
       /\ Len(reqs'[j].events) > Len(reqs[j].events)

\* C27: an error or close event of a DeepWiki transport that is no longer
\* the current one leaves a newer established connection untouched: the
\* current client and transport are not cleared.
C27_StaleTransportEventIsIgnored ==
  [][StaleTransportReports => result' = result]_vars
\* this step is the rejection of client.connect of an attempt
AttemptFails ==
  /\ Len(reqs') = Len(reqs)
  /\ \E j \in 1..Len(reqs) : reqs[j].st = "connecting" /\ reqs'[j].st = "failed"

\* C28: every connection attempt releases the single-flight lock: once
\* client.connect has settled, with success or with an error,
\* _connectingPromise is null again; after a failed attempt the state is
\* disconnected, and the next getMcpClient call starts a fresh attempt
\* instead of receiving the old rejected promise.
C28_LockIsReleased ==
  /\ [](isConnecting(result) =>
          reqs[result.connectingPromise].st = "connecting")
  /\ [][AttemptFails => result' = Disconnected]_vars
  /\ [][(IsCall /\ order'[Len(order')].attempt # 0) =>
          reqs'[order'[Len(order')].attempt].st = "connecting"]_vars
  /\ isConnecting(result) ~> ~isConnecting(result)

C28_Witness ==
  /\ Len(reqs) = 2
  /\ reqs[1].st = "failed"
  /\ reqs[2].st = "connecting"
  /\ order[1].got = -1
  /\ order[2].started /\ order[2].attempt = 2
  /\ result.connectingPromise = 2
\* C29: for every total budget T in [1000, 20000] and every number N >= 1
\* of sub-tasks the schema accepts, the budget of a sub-task is at least 1
\* and N times that budget does not exceed T, so the URL of every sub-task
\* request carries a tokens parameter within the total budget.
C29_SubTaskBudgetWithinTotal ==
  pc = "done" =>
    /\ result.tokenPerSubTask >= 1
    /\ args.count * result.tokenPerSubTask =< args.tokens.n
    /\ "tokens" \in DOMAIN result.url
    /\ result.url.tokens \in 1..args.tokens.n
\* C30: shutdown() of the server is invoked only after a startup failure or
\* a process-level fault: after run() has connected the transport, main()
\* leaves the server connected and does not close it.
C30_ShutdownOnlyAfterAFault ==
  impl \in Generations => \A j \in 1..Len(reqs) : reqs[j].by \in Faults
===========================================================================
